---------------------------- MODULE Spec2Model ----------------------------
(***************************************************************************)
(* Model of the stock-analysis core: the scoring engine (formulas.py),     *)
(* the fact resolver (sec_api.py) and the TTL caches (database.py,         *)
(* finviz_db.py).                                                          *)
(*                                                                         *)
(* Numbers are integers; a ratio is kept as an exact fraction n/d with     *)
(* d > 0 and compared by cross-multiplication, so a comparison such as     *)
(* val > 0.15 is the comparison with 15/100.                               *)
(***************************************************************************)
EXTENDS Integers, Sequences, FiniteSets, TLC

VARIABLES
    facts,          \* FormulaEngine.facts: key -> optional number
    history,        \* FormulaEngine.historical_facts['NetIncomeLoss']
    results,        \* what evaluate_all returned (<<>> before the call)
    outcome,        \* "idle", "returned" or "raised": how evaluate_all ended
    companyfacts,   \* the filings document handed to the resolver
    call,           \* the resolver call made on it and what it returned
    cache,          \* which cache object is in use: "sec", "price", "screener"
    table,          \* the rows of its table (committed state of the db file)
    schema,         \* "ok", or "incompatible": the table lacks a column read
    now,            \* datetime.now(), in days
    last,           \* the last cache call: its arguments and how it ended
                    \* (under TxnSpec: the latest read and what it saw)
    stored,         \* per key, the latest store call made for it (under
                    \* TxnSpec: the number of its latest committed store)
    txn,            \* per process, the store it is executing
    issued,         \* the store calls begun so far, in the order they began
    batch,          \* the batch call in progress: its items and how far it is
    client,         \* the last call of get_companyfacts and what it did
    disk,           \* the db file of the cache: its directory, table, columns
    second,         \* what a second call of evaluate_all returned
    source,         \* a json file cache (cik map, S&P-500 list) and the
                    \* last call made on it
    sync            \* the last call of _sync_one and what it did

scoringVars == <<facts, history, results, outcome>>

resolverVars == <<companyfacts, call>>

cacheVars == <<cache, table, schema, now, last, stored>>

txnVars == <<txn, issued>>

\* the file system and the services outside the process
outsideVars == <<second, source, sync>>

hostVars == <<disk, outsideVars>>

batchVars == <<batch, client, hostVars>>

vars == <<facts, history, results, outcome, companyfacts, call,
          cache, table, schema, now, last, stored, txn, issued, batch,
          client, disk, second, source, sync>>

-----------------------------------------------------------------------------
(* Optional values: Python's None and a present number. *)

None == [p |-> FALSE, v |-> 0]

Some(x) == [p |-> TRUE, v |-> x]

IsNone(o) == ~o.p

Abs(x) == IF x < 0 THEN -x ELSE x

-----------------------------------------------------------------------------
(* Bounds of the scoring inputs. *)

\* at most this many inputs (facts, or a non-empty history) are present
MaxPresent == 3

\* the numbers a present fact takes: a negative, zero, three times the
\* size of the negative, and two close positives
FactVals == {-100, 0, 300, 1000, 1001}

\* entry.get('val') of an entry without 'val': None, also as a list element;
\* kept as a number that no entry and no history tried takes
NoVal == -999999

\* the NetIncomeLoss histories tried
HistSamples ==
    {<< >>, <<5>>, <<-5, 5>>, <<5, -3, 2, 4, 1, -1, 3, 6, 2, 1>>,
     <<5, -3, 2, 4, 1, -1, 3, 6, 2, -1, 7>>}

FactKeys ==
    {"cash", "investments", "debt", "liabilities", "equity", "ocf", "capex",
     "income", "current_assets", "current_liabilities", "oi", "revenue",
     "assets", "interest"}

-----------------------------------------------------------------------------
(* Computed values: a float that is a fraction n/d (d > 0) or float('inf'). *)

Inf == [inf |-> TRUE, n |-> 1, d |-> 1]

\* Python's n / d; d = 0 raises ZeroDivisionError, kept as the value with d = 0
Frac(n, d) == IF d = 0 THEN [inf |-> FALSE, n |-> 0, d |-> 0]
              ELSE IF d < 0 THEN [inf |-> FALSE, n |-> -n, d |-> -d]
              ELSE [inf |-> FALSE, n |-> n, d |-> d]

DivisionRaised(val) == ~val.inf /\ val.d = 0

\* val > tn/td  (td > 0)
Gt(val, tn, td) == val.inf \/ val.n * td > tn * val.d

\* val < tn/td  (td > 0)
Lt(val, tn, td) == ~val.inf /\ val.n * td < tn * val.d

FloorDiv(a, b) == a \div b

\* n/d (d > 0) rounded to the nearest integer, ties to even
RoundHalfEven(n, d) ==
    LET q == FloorDiv(n, d)
        r == n - q * d
    IN  IF 2 * r < d THEN q
        ELSE IF 2 * r > d THEN q + 1
        ELSE IF q % 2 = 0 THEN q ELSE q + 1

(* Displayed values.  k names the form: "none" (None), "ratio" (round(val, 2),
   v in hundredths), "inf" (round(inf, 2)), "pct" (f"{round(val*100, 1)}%",
   v in tenths of a percent), "text" ("No Interest"), "count" (f"{v}/10"). *)
NoValue == [k |-> "none", v |-> 0]

Round2(val) == IF val.inf THEN [k |-> "inf", v |-> 0]
               ELSE IF val.d = 0 THEN NoValue
               ELSE [k |-> "ratio", v |-> RoundHalfEven(val.n * 100, val.d)]

Pct1(val) == IF val.inf THEN [k |-> "inf", v |-> 0]
             ELSE IF val.d = 0 THEN NoValue
             ELSE [k |-> "pct", v |-> RoundHalfEven(val.n * 1000, val.d)]

_result(name, status, value, target, description) ==
    [name |-> name, status |-> status, value |-> value, target |-> target,
     description |-> description]

PassIf(b) == IF b THEN "PASS" ELSE "FAIL"

\* the status a test assigns from val, unless computing val raised
StatusOf(val, pass) == IF DivisionRaised(val) THEN "ZeroDivisionError"
                       ELSE PassIf(pass)

-----------------------------------------------------------------------------
(* FormulaEngine: the ten tests.  f is self.facts, h the NetIncomeLoss
   history.  Every operator returns the dict built by _result. *)

\* self.facts.get('investments') or 0
OrZero(o) == IF IsNone(o) \/ o.v = 0 THEN 0 ELSE o.v

cash_test_status_on_rounded(f) ==
    LET cash == f["cash"]
        investments == OrZero(f["investments"])
        debt == f["debt"]
    IN  IF IsNone(cash) \/ IsNone(debt)
        THEN _result("Cash Test", "NA", NoValue, "> 1.0",
                     "Cash & equivalents / Total Debt")
        ELSE LET val == IF debt.v > 0 THEN Frac(cash.v + investments, debt.v)
                        ELSE Inf
                 shown == Round2(val)
             IN  _result("Cash Test",
                         StatusOf(val, shown.k = "inf" \/ shown.v > 100),
                         shown, "> 1.0", "Cash & equivalents / Total Debt")

cash_test(f) ==
    LET cash == f["cash"]
        investments == OrZero(f["investments"])
        debt == f["debt"]
    IN  IF IsNone(cash) \/ IsNone(debt)
        THEN _result("Cash Test", "NA", NoValue, "> 1.0",
                     "Cash & equivalents / Total Debt")
        ELSE LET val == IF debt.v > 0 THEN Frac(cash.v + investments, debt.v)
                        ELSE Inf
             IN  _result("Cash Test", StatusOf(val, Gt(val, 1, 1)), Round2(val),
                         "> 1.0", "Cash & equivalents / Total Debt")

debt_to_equity(f) ==
    LET liabilities == f["liabilities"]
        equity == f["equity"]
    IN  IF IsNone(liabilities) \/ IsNone(equity)
        THEN _result("Debt-to-Equity", "NA", NoValue, "< 0.5",
                     "Total Liabilities / Stockholders Equity")
        ELSE LET val == IF equity.v # 0 THEN Frac(liabilities.v, equity.v)
                        ELSE Inf
             IN  _result("Debt-to-Equity", StatusOf(val, Lt(val, 1, 2)), Round2(val),
                         "< 0.5", "Total Liabilities / Stockholders Equity")

free_cash_flow_debt_or_zero(f) ==
    LET ocf == f["ocf"]
        capex == f["capex"]
        debt == OrZero(f["debt"])
    IN  IF IsNone(ocf) \/ IsNone(capex)
        THEN _result("Free Cash Flow Test", "NA", NoValue, "> 0.25",
                     "(OCF - CapEx) / Total Debt")
        ELSE LET fcf == ocf.v - Abs(capex.v)
                 val == IF debt > 0 THEN Frac(fcf, debt) ELSE Inf
             IN  _result("Free Cash Flow Test", StatusOf(val, Gt(val, 1, 4)),
                         Round2(val), "> 0.25", "(OCF - CapEx) / Total Debt")

free_cash_flow(f) ==
    LET ocf == f["ocf"]
        capex == f["capex"]
        debt == f["debt"]
    IN  IF IsNone(ocf) \/ IsNone(capex) \/ IsNone(debt)
        THEN _result("Free Cash Flow Test", "NA", NoValue, "> 0.25",
                     "(OCF - CapEx) / Total Debt")
        ELSE LET fcf == ocf.v - Abs(capex.v)
                 val == IF debt.v > 0 THEN Frac(fcf, debt.v) ELSE Inf
             IN  _result("Free Cash Flow Test", StatusOf(val, Gt(val, 1, 4)),
                         Round2(val), "> 0.25", "(OCF - CapEx) / Total Debt")

return_on_equity(f) ==
    LET income == f["income"]
        equity == f["equity"]
    IN  IF IsNone(income) \/ IsNone(equity)
        THEN _result("Return on Equity", "NA", NoValue, "> 15%",
                     "Net Income / Stockholders Equity")
        ELSE LET val == IF equity.v # 0 THEN Frac(income.v, equity.v)
                        ELSE Frac(0, 1)
             IN  _result("Return on Equity", StatusOf(val, Gt(val, 15, 100)),
                         Pct1(val), "> 15%", "Net Income / Stockholders Equity")

current_ratio_zero_as_zero(f) ==
    LET assets == f["current_assets"]
        liabilities == f["current_liabilities"]
    IN  IF IsNone(assets) \/ IsNone(liabilities)
        THEN _result("Current Ratio", "NA", NoValue, "> 1.5",
                     "Current Assets / Current Liabilities")
        ELSE LET val == IF liabilities.v # 0
                        THEN Frac(assets.v, liabilities.v) ELSE Frac(0, 1)
             IN  _result("Current Ratio", StatusOf(val, Gt(val, 3, 2)), Round2(val),
                         "> 1.5", "Current Assets / Current Liabilities")

current_ratio(f) ==
    LET assets == f["current_assets"]
        liabilities == f["current_liabilities"]
    IN  IF IsNone(assets) \/ IsNone(liabilities)
        THEN _result("Current Ratio", "NA", NoValue, "> 1.5",
                     "Current Assets / Current Liabilities")
        ELSE LET val == IF liabilities.v # 0
                        THEN Frac(assets.v, liabilities.v) ELSE Inf
             IN  _result("Current Ratio", StatusOf(val, Gt(val, 3, 2)), Round2(val),
                         "> 1.5", "Current Assets / Current Liabilities")

operating_margin(f) ==
    LET oi == f["oi"]
        revenue == f["revenue"]
    IN  IF IsNone(oi) \/ IsNone(revenue)
        THEN _result("Operating Margin", "NA", NoValue, "> 12%",
                     "Operating Income / Revenue")
        ELSE LET val == IF revenue.v # 0 THEN Frac(oi.v, revenue.v)
                        ELSE Frac(0, 1)
             IN  _result("Operating Margin", StatusOf(val, Gt(val, 12, 100)),
                         Pct1(val), "> 12%", "Operating Income / Revenue")

asset_turnover(f) ==
    LET revenue == f["revenue"]
        assets == f["assets"]
    IN  IF IsNone(revenue) \/ IsNone(assets)
        THEN _result("Asset Turnover", "NA", NoValue, "> 0.5",
                     "Revenue / Total Assets")
        ELSE LET val == IF assets.v # 0 THEN Frac(revenue.v, assets.v)
                        ELSE Frac(0, 1)
             IN  _result("Asset Turnover", StatusOf(val, Gt(val, 1, 2)), Round2(val),
                         "> 0.5", "Revenue / Total Assets")

interest_coverage_signed(f) ==
    LET oi == f["oi"]
        interest == f["interest"]
    IN  IF IsNone(oi)
        THEN _result("Interest Coverage", "NA", NoValue, "> 3.0",
                     "Operating Income / Interest Expense")
        ELSE IF IsNone(interest) \/ interest.v = 0
        THEN _result("Interest Coverage", "PASS", [k |-> "text", v |-> 0],
                     "> 3.0", "Operating Income / Interest Expense")
        ELSE LET val == Frac(oi.v, interest.v)
             IN  _result("Interest Coverage", StatusOf(val, Gt(val, 3, 1)),
                         Round2(val), "> 3.0",
                         "Operating Income / Interest Expense")

interest_coverage(f) ==
    LET oi == f["oi"]
        interest == f["interest"]
    IN  IF IsNone(oi)
        THEN _result("Interest Coverage", "NA", NoValue, "> 3.0",
                     "Operating Income / Interest Expense")
        ELSE IF IsNone(interest) \/ interest.v = 0
        THEN _result("Interest Coverage", "PASS", [k |-> "text", v |-> 0],
                     "> 3.0", "Operating Income / Interest Expense")
        ELSE LET val == Frac(oi.v, Abs(interest.v))
             IN  _result("Interest Coverage", StatusOf(val, Gt(val, 3, 1)),
                         Round2(val), "> 3.0",
                         "Operating Income / Interest Expense")

First10_whole_history(h) == h

\* history[:10]
First10(h) == SubSeq(h, 1, IF Len(h) < 10 THEN Len(h) ELSE 10)

earnings_stability(h) ==
    IF h = << >>
    THEN _result("Earnings Stability", "NA", NoValue, ">= 8/10",
                 "Positive Net Income years (last 10)")
    ELSE LET positives ==
                 Cardinality({i \in DOMAIN First10(h) : First10(h)[i] > 0})
             \* v > 0 with v None raises TypeError
             status == IF \E i \in DOMAIN First10(h) : First10(h)[i] = NoVal
                       THEN "TypeError" ELSE PassIf(positives >= 8)
         IN  _result("Earnings Stability", status,
                     [k |-> "count", v |-> positives], ">= 8/10",
                     "Positive Net Income years (last 10)")

capital_allocation_not_relabelled(f) == return_on_equity(f)

capital_allocation(f) ==
    [return_on_equity(f) EXCEPT !.name = "Capital Allocation"]

\* the statuses that stand for an exception leaving the test
Exceptions == {"ZeroDivisionError", "TypeError"}

\* the battery if capital_allocation renamed the dict return_on_equity
\* had put in the list instead of a fresh one
evaluate_all_shared_result(f, h) ==
    << cash_test(f), debt_to_equity(f), free_cash_flow(f),
       capital_allocation(f), current_ratio(f), operating_margin(f),
       asset_turnover(f), interest_coverage(f), earnings_stability(h),
       capital_allocation(f) >>

evaluate_all(f, h) ==
    << cash_test(f), debt_to_equity(f), free_cash_flow(f),
       return_on_equity(f), current_ratio(f), operating_margin(f),
       asset_turnover(f), interest_coverage(f), earnings_stability(h),
       capital_allocation(f) >>

-----------------------------------------------------------------------------
(* SECClient: the fact resolver.

   A document is [shape, ns]: shape "absent" is a None or empty document,
   "no_facts" a document without the 'facts' key.  ns maps a namespace to
   [present, tags]; tags maps a tag to [present, units]; units is the
   sequence, in the dict's order, of unit groups [name, entries]; entries is
   the list of entries [val, end, fy, form]. *)

\* at most this many entries (or bare tags) in a document
MaxAdds == 2

Taxonomies_dei_first == <<"dei", "us-gaap">>

\* for taxonomy in ['us-gaap', 'dei']
Taxonomies == <<"us-gaap", "dei">>

Namespaces == {"us-gaap", "dei"}

Tags == {"Revenues", "SalesRevenueNet"}

Units == {"USD", "shares"}

\* the candidate lists and the limits the resolver is called with
TagLists == {<<"Revenues">>, <<"SalesRevenueNet">>,
             <<"Revenues", "SalesRevenueNet">>,
             <<"SalesRevenueNet", "Revenues">>}

Limits == {0, 1, 2, 10}

Kind(form, end, fy) == [form |-> form, end |-> end, fy |-> fy, val |-> "num"]

\* form, period end and fiscal year of the entries tried; a 10-Q stands for
\* every form other than 10-K
EntryKinds ==
    {Kind("10-K", 2, 2), Kind("10-K", 1, 2), Kind("10-K", 2, 1),
     Kind("10-K", 1, 1), Kind("10-Q", 2, 2), Kind("10-Q", 1, 1)}

\* no entry is added: the tag is left without units
NoEntry == [form |-> "", end |-> 0, fy |-> 0, val |-> "none"]

\* no entry is added: the unit group is left empty
EmptyGroup == [form |-> "", end |-> 0, fy |-> 0, val |-> "group"]

\* a 10-K entry without 'val'; a 10-K entry without 'end' and 'fy' (end 0
\* is the default '' of the sort key, which sorts before every date)
NoValKind == [form |-> "10-K", end |-> 2, fy |-> 2, val |-> "none"]

NoEndKind == Kind("10-K", 0, 0)

\* the reported number of an entry: distinct for entries that differ in
\* namespace, tag, unit, form, period end or fiscal year
ValOf(n, t, u, k) ==
    IF k.val = "none" THEN NoVal
    ELSE (IF n = "us-gaap" THEN 10000 ELSE 20000)
         + (IF t = "Revenues" THEN 1000 ELSE 2000)
         + (IF u = "USD" THEN 100 ELSE IF u = "shares" THEN 200 ELSE 300)
         + (IF k.form = "10-K" THEN 0 ELSE 10)
         + 3 * k.end + k.fy

EmptyTag == [present |-> FALSE, units |-> << >>]

EmptyNs == [present |-> FALSE, tags |-> [t \in Tags |-> EmptyTag]]

EmptyDoc == [shape |-> "facts", ns |-> [n \in Namespaces |-> EmptyNs]]

UnitNames(units) == [i \in DOMAIN units |-> units[i].name]

HasUnit(units, u) == \E i \in DOMAIN units : units[i].name = u

EntriesOf(units, u) == units[CHOOSE i \in DOMAIN units : units[i].name = u].entries

\* the document with one more entry, or with the bare tag (k = NoEntry), or
\* with one more unit group that is empty (k = EmptyGroup)
AddToDoc(doc, n, t, u, k) ==
    LET old == doc.ns[n].tags[t]
        e == [val |-> ValOf(n, t, u, k), end |-> k.end, fy |-> k.fy,
              form |-> k.form]
        units == IF k = NoEntry THEN old.units
                 ELSE IF k = EmptyGroup
                 THEN (IF HasUnit(old.units, u) THEN old.units
                       ELSE Append(old.units, [name |-> u, entries |-> << >>]))
                 ELSE IF HasUnit(old.units, u)
                 THEN [i \in DOMAIN old.units |->
                          IF old.units[i].name = u
                          THEN [name |-> u,
                                entries |-> Append(old.units[i].entries, e)]
                          ELSE old.units[i]]
                 ELSE Append(old.units, [name |-> u, entries |-> <<e>>])
    IN  [doc EXCEPT !.ns[n] = [present |-> TRUE,
                               tags |-> [@.tags EXCEPT ![t] =
                                   [present |-> TRUE, units |-> units]]]]

AddChoices ==
    [ns : Namespaces, tag : Tags, unit : Units, kind : EntryKinds]
    \cup [ns : Namespaces, tag : Tags, unit : {"USD"}, kind : {NoEntry}]

RECURSIVE BuildDoc(_)
BuildDoc(adds) ==
    IF adds = << >> THEN EmptyDoc
    ELSE LET a == adds[Len(adds)]
         IN  AddToDoc(BuildDoc(SubSeq(adds, 1, Len(adds) - 1)),
                      a.ns, a.tag, a.unit, a.kind)

Documents ==
    {[shape |-> "absent", ns |-> EmptyDoc.ns],
     [shape |-> "no_facts", ns |-> EmptyDoc.ns]}
    \cup {BuildDoc(adds) : adds \in UNION {[1..n -> AddChoices] : n \in 0..MaxAdds}}

\* sorted(entries, key=end, reverse=True): stable, so entries with equal
\* period end keep their order
RECURSIVE SortedByEndDesc(_)
SortedByEndDesc(entries) ==
    IF entries = << >> THEN << >>
    ELSE LET x == entries[Len(entries)]
             s == SortedByEndDesc(SubSeq(entries, 1, Len(entries) - 1))
             k == Cardinality({i \in DOMAIN s : s[i].end >= x.end})
         IN  SubSeq(s, 1, k) \o <<x>> \o SubSeq(s, k + 1, Len(s))

\* the first index at which a loop with an early exit stops: the first TRUE
\* of flags, 0 when there is none
FirstTrue(flags) ==
    IF \E i \in DOMAIN flags : flags[i]
    THEN CHOOSE i \in DOMAIN flags :
            flags[i] /\ \A j \in 1..(i - 1) : ~flags[j]
    ELSE 0

IsTenK_any_form(e) == TRUE

\* entry.get('form') == '10-K'
IsTenK(e) == e.form = "10-K"

UnitKeys_stored_order(units) == UnitNames(units)

\* ['USD'] + [k for k in unit_keys if k != 'USD'] when USD is a key
UnitKeys(units) ==
    LET names == UnitNames(units)
        NotUSD(u) == u # "USD"
    IN  IF HasUnit(units, "USD")
        THEN <<"USD">> \o SelectSeq(names, NotUSD)
        ELSE names

NoHit == [found |-> FALSE, ns |-> "", tag |-> "", unit |-> "",
          entry |-> [val |-> 0, end |-> 0, fy |-> 0, form |-> ""]]

\* the first 10-K entry of a tag: unit groups in UnitKeys order, entries of a
\* group by period end descending
TagHit(n, t, tagrec) ==
    LET keys == UnitKeys(tagrec.units)
        Sorted(u) == SortedByEndDesc(EntriesOf(tagrec.units, u))
        TenKAt(u) == FirstTrue([i \in DOMAIN Sorted(u) |-> IsTenK(Sorted(u)[i])])
        ui == FirstTrue([i \in DOMAIN keys |-> TenKAt(keys[i]) # 0])
    IN  IF ui = 0 THEN NoHit
        ELSE [found |-> TRUE, ns |-> n, tag |-> t, unit |-> keys[ui],
              entry |-> Sorted(keys[ui])[TenKAt(keys[ui])]]

NamespaceHit_last_tag(doc, n, tags) ==
    LET Hit(t) == IF doc.ns[n].tags[t].present
                  THEN TagHit(n, t, doc.ns[n].tags[t]) ELSE NoHit
        Found(t) == Hit(t).found
        Rev == [i \in DOMAIN tags |-> tags[Len(tags) + 1 - i]]
        ti == FirstTrue([i \in DOMAIN Rev |-> Found(Rev[i])])
    IN  IF ~doc.ns[n].present \/ ti = 0 THEN NoHit ELSE Hit(Rev[ti])

\* the first candidate tag of a namespace, in the caller's order, with a hit
NamespaceHit(doc, n, tags) ==
    LET Hit(t) == IF doc.ns[n].tags[t].present
                  THEN TagHit(n, t, doc.ns[n].tags[t]) ELSE NoHit
        Found(t) == Hit(t).found
        ti == FirstTrue([i \in DOMAIN tags |-> Found(tags[i])])
    IN  IF ~doc.ns[n].present \/ ti = 0 THEN NoHit ELSE Hit(tags[ti])

\* where extract_fact returns from: the first namespace with a hit
ExtractHit(doc, tags) ==
    LET Found(n) == NamespaceHit(doc, n, tags).found
        ni == FirstTrue([i \in DOMAIN Taxonomies |-> Found(Taxonomies[i])])
    IN  IF doc.shape # "facts" \/ ni = 0 THEN NoHit
        ELSE NamespaceHit(doc, Taxonomies[ni], tags)

NoProvenance == [present |-> FALSE, tag |-> "", period_end |-> 0,
                 fiscal_year |-> 0, unit |-> "", form |-> ""]

\* extract_fact(companyfacts, tags, period='annual'): (value, provenance)
extract_fact(doc, tags) ==
    LET h == ExtractHit(doc, tags)
    IN  IF ~h.found THEN [value |-> None, prov |-> NoProvenance]
        ELSE [value |-> IF h.entry.val = NoVal THEN None
                        ELSE Some(h.entry.val),
              prov |-> [present |-> TRUE, tag |-> h.tag,
                        period_end |-> h.entry.end,
                        fiscal_year |-> h.entry.fy, unit |-> h.unit,
                        form |-> h.entry.form]]

\* one unit group of extract_historical_facts: the 10-K entries by period
\* end descending, the first entry of each fiscal year, until limit values
RECURSIVE CollectYears(_, _, _, _, _)
CollectYears(ten_ks, i, seen_years, acc, limit) ==
    IF i > Len(ten_ks) THEN acc
    ELSE IF ten_ks[i].fy \in seen_years
    THEN CollectYears(ten_ks, i + 1, seen_years, acc, limit)
    ELSE IF Len(acc) + 1 >= limit THEN Append(acc, ten_ks[i])
    ELSE CollectYears(ten_ks, i + 1, seen_years \cup {ten_ks[i].fy},
                      Append(acc, ten_ks[i]), limit)

\* the unit group without the fiscal-year filter: every 10-K entry is kept
UnitYears_every_entry(entries, limit) ==
    SortedByEndDesc(SelectSeq(entries, IsTenK))

UnitYears(entries, limit) ==
    CollectYears(SortedByEndDesc(SelectSeq(entries, IsTenK)), 1, {}, << >>,
                 limit)

\* the entries extract_historical_facts takes its values from: those of the
\* first unit group, in the dict's order, of the first namespace that yields any
HistEntries(doc, tag, limit) ==
    LET OfNs(n) ==
            IF doc.ns[n].present /\ doc.ns[n].tags[tag].present
            THEN LET units == doc.ns[n].tags[tag].units
                     Yields(g) == UnitYears(g.entries, limit) # << >>
                     ui == FirstTrue([i \in DOMAIN units |-> Yields(units[i])])
                 IN  IF ui = 0 THEN << >>
                     ELSE UnitYears(units[ui].entries, limit)
            ELSE << >>
        NsYields(n) == OfNs(n) # << >>
        ni == FirstTrue([i \in DOMAIN Taxonomies |-> NsYields(Taxonomies[i])])
    IN  IF doc.shape # "facts" \/ ni = 0 THEN << >>
        ELSE OfNs(Taxonomies[ni])

\* extract_historical_facts(companyfacts, tag, limit): the list of values
extract_historical_facts(doc, tag, limit) ==
    LET es == HistEntries(doc, tag, limit)
    IN  [i \in DOMAIN es |-> es[i].val]

-----------------------------------------------------------------------------
(* The caches: payloads and their stored encodings.

   A payload is [t, items]: t "None", "dict" (a filings document, items
   [k, i, n] with key k and number n) or "DataFrame" (a price table, items
   with index label i and Close n).  A stored text is the sequence of its
   JSON tokens. *)

PyNone == [t |-> "None", items |-> << >>]

PyDict(items) == [t |-> "dict", items |-> items]

DataFrame(items) == [t |-> "DataFrame", items |-> items]

Item(k, i, n) == [k |-> k, i |-> i, n |-> n]

\* `not data` / `df is None or df.empty`
Falsy(v) == v.t = "None" \/ v.items = << >>

Punct(c) == [kind |-> "punct", s |-> c, n |-> 0]

StrTok(str) == [kind |-> "str", s |-> str, n |-> 0]

\* the string of the decimal digits of i (a JSON key made from an index label)
DigitsTok(i) == [kind |-> "str", s |-> "#", n |-> i]

NumTok(n) == [kind |-> "num", s |-> "", n |-> n]

NullTok == [kind |-> "null", s |-> "", n |-> 0]

KeyTok(item) == IF item.k = "" THEN DigitsTok(item.i) ELSE StrTok(item.k)

RECURSIVE MembersText(_)
MembersText(items) ==
    IF items = << >> THEN << >>
    ELSE <<KeyTok(items[1]), Punct(":"), NumTok(items[1].n)>>
         \o (IF Len(items) = 1 THEN << >>
             ELSE <<Punct(",")>> \o MembersText(Tail(items)))

ObjectText(items) == <<Punct("{")>> \o MembersText(items) \o <<Punct("}")>>

\* json.dumps(data)
json_dumps(v) == IF v.t = "None" THEN <<NullTok>> ELSE ObjectText(v.items)

\* df.to_json(): {"Close": {"<index>": value, ...}}
to_json(df) ==
    <<Punct("{"), StrTok("Close"), Punct(":")>> \o ObjectText(df.items)
    \o <<Punct("}")>>

ParseError == [ok |-> FALSE, items |-> << >>]

\* the members between the braces of an object: key : number [, more]
RECURSIVE ParseMembers(_)
ParseMembers(toks) ==
    IF Len(toks) < 3 THEN ParseError
    ELSE IF ~(toks[1].kind = "str" /\ toks[2] = Punct(":")
              /\ toks[3].kind = "num")
    THEN ParseError
    ELSE LET item == Item(IF toks[1].s = "#" THEN "" ELSE toks[1].s,
                          toks[1].n, toks[3].n)
         IN  IF Len(toks) = 3 THEN [ok |-> TRUE, items |-> <<item>>]
             ELSE IF toks[4] # Punct(",") THEN ParseError
             ELSE LET rest == ParseMembers(SubSeq(toks, 5, Len(toks)))
                  IN  IF rest.ok
                      THEN [ok |-> TRUE, items |-> <<item>> \o rest.items]
                      ELSE ParseError

ParseObject(toks) ==
    IF Len(toks) < 2 \/ toks[1] # Punct("{") \/ toks[Len(toks)] # Punct("}")
    THEN ParseError
    ELSE IF Len(toks) = 2 THEN [ok |-> TRUE, items |-> << >>]
    ELSE ParseMembers(SubSeq(toks, 2, Len(toks) - 1))

LoadError == [ok |-> FALSE, value |-> PyNone]

\* json.loads(data): ok is FALSE when it raises JSONDecodeError
json_loads(text) ==
    IF text = <<NullTok>> THEN [ok |-> TRUE, value |-> PyNone]
    ELSE LET r == ParseObject(text)
         IN  IF r.ok THEN [ok |-> TRUE, value |-> PyDict(r.items)]
             ELSE LoadError

\* pd.read_json(io.StringIO(data)): ok is FALSE when it raises ValueError
read_json(text) ==
    IF Len(text) < 5 \/ SubSeq(text, 1, 3) #
           <<Punct("{"), StrTok("Close"), Punct(":")>>
       \/ text[Len(text)] # Punct("}")
    THEN LoadError
    ELSE LET r == ParseObject(SubSeq(text, 4, Len(text) - 1))
         IN  IF r.ok /\ \A j \in DOMAIN r.items : r.items[j].k = ""
             THEN [ok |-> TRUE, value |-> DataFrame(r.items)]
             ELSE LoadError

\* a column value: NULL, or a text
NullText == [null |-> TRUE, text |-> << >>]

Text(toks) == [null |-> FALSE, text |-> toks]

\* a cached_at / updated_at column: datetime.now().isoformat(), or damaged
IsoFormat(t) == [form |-> "iso", t |-> t]

GarbageStamp == [form |-> "garbage", t |-> 0]

NullStamp == [form |-> "null", t |-> 0]

\* datetime.fromisoformat(cached_at): TypeError on NULL, ValueError on garbage
fromisoformat(ts) == [ok |-> ts.form = "iso", t |-> ts.t]

\* fromisoformat(cached_at) > datetime.now() - timedelta(days=days)
Fresh(ts, clock, days) == fromisoformat(ts).t > clock - days

-----------------------------------------------------------------------------
(* The caches: tables, sqlite errors and the calls.

   A row is [key, ticker, data, ts]: key is the cik, the ticker of a price
   row or the screener name; ticker is used by screener rows only; data is
   the data column, ts the cached_at / updated_at column. *)

\* the latest value of datetime.now() that is tried
MaxTime == 2

\* ttl_days of ScreenerCache
TTL_DAYS == 1

\* the retry loops: for _ in range(3)
MaxAttempts == 3

CacheKeys == {"k1", "k2"}

\* the values of the days argument of get that are tried
DaysArgs == {1, 2}

SecPayloads ==
    {PyNone, PyDict(<< >>), PyDict(<<Item("facts", 0, 1)>>),
     PyDict(<<Item("cik", 0, 7), Item("facts", 0, 2)>>)}

PricePayloads ==
    {PyNone, DataFrame(<< >>), DataFrame(<<Item("", 1, 10)>>),
     DataFrame(<<Item("", 1, 10), Item("", 2, 11)>>)}

\* the rows lists handed to ScreenerCache.store: each row by its ticker,
\* "" for a row without one, " A" for a ticker that strips to "A"
RowLists == {<< >>, <<"A">>, <<"B", "A">>, <<"A", "">>, <<"A", " A">>}

\* str(ticker).strip()
Strip(t) == IF t = " A" THEN "A" ELSE t

Unable == "unable to open database file"

\* what sqlite answers to one attempt (connect and execute)
Faults == {"ok", Unable, "database is locked"}

\* the answers to the successive attempts of one call: a call makes no
\* attempt after the first answer that is not Unable
FaultScripts ==
    {<<"ok">>, <<"database is locked">>, <<Unable, "ok">>,
     <<Unable, "database is locked">>, <<Unable, Unable, "ok">>,
     <<Unable, Unable, "database is locked">>, <<Unable, Unable, Unable>>}

\* the sqlite3.OperationalError one attempt raises, "none" when it runs
AttemptError(sch, f) ==
    IF f # "ok" THEN f
    ELSE IF sch = "incompatible" THEN "no such column"
    ELSE "none"

Row(key, ticker, data, ts) ==
    [key |-> key, ticker |-> ticker, data |-> data, ts |-> ts]

RowsOf(tbl, key) == {r \in tbl : r.key = key}

\* INSERT OR REPLACE under the table's PRIMARY KEY
InsertOrReplace(tbl, row) ==
    {r \in tbl : ~(r.key = row.key /\ r.ticker = row.ticker)} \cup {row}

Absent == [present |-> FALSE, v |-> PyNone, tickers |-> {}]

Payload(v) == [present |-> TRUE, v |-> v, tickers |-> {}]

TickerList(ts) == [present |-> TRUE, v |-> PyNone, tickers |-> ts]

\* how a call ended
Ended(status, value, attempts, sleeps, wrote, tbl) ==
    [status |-> status, value |-> value, attempts |-> attempts,
     sleeps |-> sleeps, wrote |-> wrote, table |-> tbl]

\* the row read by fetchone, decoded by load, if it is fresh and decodes
ReadRow(row, clock, days, text_json) ==
    IF ~fromisoformat(row.ts).ok THEN Absent
    ELSE IF ~Fresh(row.ts, clock, days) THEN Absent
    ELSE IF row.data.null THEN Absent
    ELSE IF text_json
    THEN (IF json_loads(row.data.text).ok
          THEN Payload(json_loads(row.data.text).value) ELSE Absent)
    ELSE (IF read_json(row.data.text).ok
          THEN Payload(read_json(row.data.text).value) ELSE Absent)

SECCache_get_not_strict(tbl, sch, clock, cik, days, f) ==
    IF AttemptError(sch, f) # "none" \/ RowsOf(tbl, cik) = {}
    THEN Ended("returned", Absent, 1, 0, FALSE, tbl)
    ELSE Ended("returned",
               ReadRow(CHOOSE r \in RowsOf(tbl, cik) : TRUE, clock, days + 1,
                       TRUE),
               1, 0, FALSE, tbl)

\* SECCache.get(cik, days): every error is caught and answered with None
SECCache_get(tbl, sch, clock, cik, days, f) ==
    IF AttemptError(sch, f) # "none" \/ RowsOf(tbl, cik) = {}
    THEN Ended("returned", Absent, 1, 0, FALSE, tbl)
    ELSE Ended("returned",
               ReadRow(CHOOSE r \in RowsOf(tbl, cik) : TRUE, clock, days,
                       TRUE),
               1, 0, FALSE, tbl)

\* the attempt at which a retry loop stops: the first whose error is not
\* Unable; 0 when all MaxAttempts attempts answered Unable
StopsAt(sch, script) ==
    FirstTrue([i \in DOMAIN script |-> AttemptError(sch, script[i]) # Unable])

\* PriceCache.get(ticker, days)
PriceCache_get(tbl, sch, clock, ticker, days, script) ==
    LET stop == StopsAt(sch, script)
    IN  IF stop = 0
        THEN Ended("returned", Absent, MaxAttempts, MaxAttempts, FALSE, tbl)
        ELSE IF AttemptError(sch, script[stop]) # "none"
        THEN Ended("raised", Absent, stop, stop - 1, FALSE, tbl)
        ELSE IF RowsOf(tbl, ticker) = {}
        THEN Ended("returned", Absent, stop, stop - 1, FALSE, tbl)
        ELSE Ended("returned",
                   ReadRow(CHOOSE r \in RowsOf(tbl, ticker) : TRUE, clock,
                           days, FALSE),
                   stop, stop - 1, FALSE, tbl)

\* ScreenerCache.get_tickers(screener_name); first is rows[0]
ScreenerCache_get_tickers(tbl, sch, clock, name, first, f) ==
    IF AttemptError(sch, f) # "none" \/ RowsOf(tbl, name) = {}
    THEN Ended("returned", Absent, 1, 0, FALSE, tbl)
    ELSE IF ~fromisoformat(first.ts).ok
    THEN Ended("returned", Absent, 1, 0, FALSE, tbl)
    ELSE IF fromisoformat(first.ts).t <= clock - TTL_DAYS
    THEN Ended("returned", Absent, 1, 0, FALSE, tbl)
    ELSE Ended("returned",
               TickerList({r.ticker : r \in RowsOf(tbl, name)}),
               1, 0, FALSE, tbl)

\* ScreenerCache.is_fresh(screener_name); first is the row of LIMIT 1
ScreenerCache_is_fresh(tbl, sch, clock, name, first, f) ==
    IF AttemptError(sch, f) # "none" \/ RowsOf(tbl, name) = {} THEN FALSE
    ELSE IF ~fromisoformat(first.ts).ok THEN FALSE
    ELSE fromisoformat(first.ts).t > clock - TTL_DAYS

\* SECCache.store(cik, data): one attempt, its error is not caught
SECCache_store(tbl, sch, clock, cik, data, f) ==
    IF Falsy(data) THEN Ended("returned", Absent, 0, 0, FALSE, tbl)
    ELSE IF AttemptError(sch, f) # "none"
    THEN Ended("raised", Absent, 1, 0, FALSE, tbl)
    ELSE Ended("returned", Absent, 1, 0, TRUE,
               InsertOrReplace(tbl, Row(cik, "", Text(json_dumps(data)),
                                        IsoFormat(clock))))

\* PriceCache.store(ticker, df)
PriceCache_store(tbl, sch, clock, ticker, df, script) ==
    LET stop == StopsAt(sch, script)
    IN  IF Falsy(df) THEN Ended("returned", Absent, 0, 0, FALSE, tbl)
        ELSE IF stop = 0
        THEN Ended("returned", Absent, MaxAttempts, MaxAttempts, FALSE, tbl)
        ELSE IF AttemptError(sch, script[stop]) # "none"
        THEN Ended("raised", Absent, stop, stop - 1, FALSE, tbl)
        ELSE Ended("returned", Absent, stop, stop - 1, TRUE,
                   InsertOrReplace(tbl, Row(ticker, "", Text(to_json(df)),
                                            IsoFormat(clock))))

\* the INSERTs of ScreenerCache.store, row by row, inside its transaction;
\* ok is FALSE when an INSERT hits the PRIMARY KEY (sqlite3.IntegrityError)
RECURSIVE InsertRows(_, _, _, _)
InsertRows(work, name, rows, clock) ==
    IF rows = << >> THEN [ok |-> TRUE, table |-> work]
    ELSE IF rows[1] = "" THEN InsertRows(work, name, Tail(rows), clock)
    ELSE IF \E r \in work : r.key = name /\ r.ticker = Strip(rows[1])
    THEN [ok |-> FALSE, table |-> work]
    ELSE InsertRows(work \cup {Row(name, Strip(rows[1]), NullText,
                                   IsoFormat(clock))},
                    name, Tail(rows), clock)

\* the store with a DELETE that lacks its WHERE clause
ScreenerCache_store_delete_all(tbl, sch, clock, name, rows, script) ==
    LET stop == StopsAt(sch, script)
        done == InsertRows({}, name, rows, clock)
    IN  IF rows = << >> THEN Ended("returned", Absent, 0, 0, FALSE, tbl)
        ELSE IF stop = 0
        THEN Ended("returned", Absent, MaxAttempts, MaxAttempts, FALSE, tbl)
        ELSE IF AttemptError(sch, script[stop]) # "none" \/ ~done.ok
        THEN Ended("raised", Absent, stop, stop - 1, FALSE, tbl)
        ELSE Ended("returned", Absent, stop, stop - 1, TRUE, done.table)

\* ScreenerCache.store(screener_name, rows): DELETE and INSERTs commit
\* together, or the transaction is rolled back
ScreenerCache_store(tbl, sch, clock, name, rows, script) ==
    LET stop == StopsAt(sch, script)
        done == InsertRows(tbl \ RowsOf(tbl, name), name, rows, clock)
    IN  IF rows = << >> THEN Ended("returned", Absent, 0, 0, FALSE, tbl)
        ELSE IF stop = 0
        THEN Ended("returned", Absent, MaxAttempts, MaxAttempts, FALSE, tbl)
        ELSE IF AttemptError(sch, script[stop]) # "none" \/ ~done.ok
        THEN Ended("raised", Absent, stop, stop - 1, FALSE, tbl)
        ELSE Ended("returned", Absent, stop, stop - 1, TRUE, done.table)

-----------------------------------------------------------------------------
(* The cache specification: one cache object, a clock, and calls of get and
   store on it; between calls the db file can be damaged from outside. *)

\* the number of calls that are made on the cache
MaxCalls == 2

NoCacheCall ==
    [op |-> "none", key |-> "", days |-> 0, at |-> 0, payload |-> PyNone,
     rows |-> << >>, faults |-> << >>, damaged |-> FALSE, status |-> "none",
     value |-> Absent, attempts |-> 0, sleeps |-> 0, wrote |-> FALSE,
     calls |-> 0]

NoStore == [called |-> FALSE, payload |-> PyNone, at |-> 0, status |-> "none",
            wrote |-> FALSE]

\* the column values of a row cannot be read back: the timestamp or the
\* payload does not parse or is NULL
DamagedRow(kind, r) ==
    \/ ~fromisoformat(r.ts).ok
    \/ /\ kind = "sec"
       /\ (r.data.null \/ ~json_loads(r.data.text).ok)
    \/ /\ kind = "price"
       /\ (r.data.null \/ ~read_json(r.data.text).ok)

Damaged(kind, tbl, sch, key) ==
    sch = "incompatible" \/ \E r \in RowsOf(tbl, key) : DamagedRow(kind, r)

Recorded(op, key, days, payload, rows, faults, damaged, e) ==
    [op |-> op, key |-> key, days |-> days, at |-> now, payload |-> payload,
     rows |-> rows, faults |-> faults, damaged |-> damaged,
     status |-> e.status, value |-> e.value, attempts |-> e.attempts,
     sleeps |-> e.sleeps, wrote |-> e.wrote, calls |-> last.calls + 1]

StoreCalled(key, payload, e) ==
    [stored EXCEPT ![key] = [called |-> TRUE, payload |-> payload,
                             at |-> now, status |-> e.status,
                             wrote |-> e.wrote]]

Procs == {"p1", "p2"}

IdleTxn == [pc |-> "idle", id |-> 0, name |-> "", todo |-> << >>,
            work |-> {}, before |-> {}, outcome |-> "none"]

NoCall == [op |-> "none", tags |-> << >>, tag |-> "", limit |-> 0,
           value |-> None, prov |-> NoProvenance, hist |-> << >>]

ScoringIdle ==
    /\ facts = [k \in FactKeys |-> None]
    /\ history = << >>
    /\ results = << >>
    /\ outcome = "idle"

ResolverIdle ==
    /\ companyfacts = EmptyDoc
    /\ call = NoCall

CacheIdle ==
    /\ cache = "none"
    /\ table = {}
    /\ schema = "ok"
    /\ now = 0
    /\ last = NoCacheCall
    /\ stored = [k \in CacheKeys |-> NoStore]

TxnIdle ==
    /\ txn = [p \in Procs |-> IdleTxn]
    /\ issued = << >>

NoBatch == [op |-> "none", items |-> << >>, workers |-> 0, force |-> FALSE,
            at |-> 0, done |-> << >>, results |-> {}, status |-> "idle"]

\* no call of get_companyfacts was made
NoRequest == [calls |-> 0, cik |-> "", force |-> FALSE, first |-> "none",
              value |-> PyNone, requests |-> 0, sleeps |-> << >>,
              answer |-> "none", wrote |-> FALSE, before |-> {},
              notfound |-> {}, ok200 |-> 0, storefault |-> "ok"]

\* the db file as every cache call finds it: constructed, all columns there
NoDisk == [dir |-> TRUE, exists |-> TRUE, columns |-> {}, opened |-> 0,
           was |-> "idle"]

NoFile == [exists |-> FALSE, mtime |-> 0, content |-> ""]

\* no file cache is in use
NoSource == [name |-> "none", file |-> NoFile, calls |-> 0, status |-> "none",
             value |-> "", answer |-> "none", before |-> NoFile]

\* no call of _sync_one was made
NoSync == [calls |-> 0, name |-> "", force |-> FALSE, status |-> "none",
           requests |-> 0, lookups |-> 0, tickers |-> << >>, failed |-> {},
           loaded |-> FALSE, wrote |-> FALSE, reads |-> << >>,
           before |-> {}]

OutsideIdle == second = << >> /\ source = NoSource /\ sync = NoSync

HostIdle == disk = NoDisk /\ OutsideIdle

BatchIdle == batch = NoBatch /\ client = NoRequest /\ HostIdle

CacheInit ==
    /\ cache \in {"sec", "price", "screener"}
    /\ table = {}
    /\ schema = "ok"
    /\ now = 0
    /\ last = NoCacheCall
    /\ stored = [k \in CacheKeys |-> NoStore]
    /\ ScoringIdle
    /\ ResolverIdle
    /\ TxnIdle
    /\ BatchIdle

SecStore ==
    /\ cache = "sec"
    /\ last.calls < MaxCalls
    /\ \E cik \in CacheKeys, data \in SecPayloads, f \in Faults :
         LET e == SECCache_store(table, schema, now, cik, data, f)
         IN  /\ table' = e.table
             /\ last' = Recorded("store", cik, 0, data, << >>, <<f>>,
                                Damaged(cache, table, schema, cik), e)
             /\ stored' = StoreCalled(cik, data, e)
    /\ UNCHANGED <<cache, schema, now, scoringVars, resolverVars, txnVars,
                   batchVars>>

SecGet ==
    /\ cache = "sec"
    /\ last.calls < MaxCalls
    /\ \E cik \in CacheKeys, days \in DaysArgs, f \in Faults :
         LET e == SECCache_get(table, schema, now, cik, days, f)
         IN  /\ table' = e.table
             /\ last' = Recorded("get", cik, days, PyNone, << >>, <<f>>,
                                Damaged(cache, table, schema, cik), e)
    /\ UNCHANGED <<cache, schema, now, stored, scoringVars, resolverVars,
                   txnVars, batchVars>>

PriceStore ==
    /\ cache = "price"
    /\ last.calls < MaxCalls
    /\ \E ticker \in CacheKeys, df \in PricePayloads,
          script \in FaultScripts :
         LET e == PriceCache_store(table, schema, now, ticker, df, script)
         IN  /\ table' = e.table
             /\ last' = Recorded("store", ticker, 0, df, << >>, script,
                                Damaged(cache, table, schema, ticker), e)
             /\ stored' = StoreCalled(ticker, df, e)
    /\ UNCHANGED <<cache, schema, now, scoringVars, resolverVars, txnVars,
                   batchVars>>

PriceGet ==
    /\ cache = "price"
    /\ last.calls < MaxCalls
    /\ \E ticker \in CacheKeys, days \in DaysArgs, script \in FaultScripts :
         LET e == PriceCache_get(table, schema, now, ticker, days, script)
         IN  /\ table' = e.table
             /\ last' = Recorded("get", ticker, days, PyNone, << >>, script,
                                Damaged(cache, table, schema, ticker), e)
    /\ UNCHANGED <<cache, schema, now, stored, scoringVars, resolverVars,
                   txnVars, batchVars>>

ScreenerStore ==
    /\ cache = "screener"
    /\ last.calls < MaxCalls
    /\ \E name \in CacheKeys, rows \in RowLists, script \in FaultScripts :
         LET e == ScreenerCache_store(table, schema, now, name, rows, script)
         IN  /\ table' = e.table
             /\ last' = Recorded("store", name, 0, PyNone, rows, script,
                                Damaged(cache, table, schema, name), e)
             /\ stored' = StoreCalled(name, PyNone, e)
    /\ UNCHANGED <<cache, schema, now, scoringVars, resolverVars, txnVars,
                   batchVars>>

ScreenerGetTickers ==
    /\ cache = "screener"
    /\ last.calls < MaxCalls
    /\ \E name \in CacheKeys, f \in Faults :
         \E first \in IF RowsOf(table, name) = {}
                      THEN {Row(name, "", NullText, NullStamp)}
                      ELSE RowsOf(table, name) :
           LET e == ScreenerCache_get_tickers(table, schema, now, name,
                                              first, f)
           IN  /\ table' = e.table
               /\ last' = Recorded("get", name, TTL_DAYS, PyNone, << >>,
                                   <<f>>,
                                   \/ schema = "incompatible"
                                   \/ /\ RowsOf(table, name) # {}
                                      /\ DamagedRow(cache, first),
                                   e)
    /\ UNCHANGED <<cache, schema, now, stored, scoringVars, resolverVars,
                   txnVars, batchVars>>

\* a day passes
Tick ==
    /\ cache # "none"
    /\ now < MaxTime
    /\ now' = now + 1
    /\ UNCHANGED <<cache, table, schema, last, stored, scoringVars,
                   resolverVars, txnVars, batchVars>>

Damages == {"truncated payload", "null payload", "garbage timestamp",
            "null timestamp"}

Damage(r, d) ==
    IF d = "truncated payload" /\ ~r.data.null /\ Len(r.data.text) > 0
    THEN [r EXCEPT !.data = Text(SubSeq(r.data.text, 1,
                                        Len(r.data.text) - 1))]
    ELSE IF d = "null payload" THEN [r EXCEPT !.data = NullText]
    ELSE IF d = "garbage timestamp" THEN [r EXCEPT !.ts = GarbageStamp]
    ELSE IF d = "null timestamp" THEN [r EXCEPT !.ts = NullStamp]
    ELSE r

\* the db file is damaged from outside: a column of a stored row is
\* truncated, NULLed or overwritten
CorruptRecord ==
    /\ cache # "none"
    /\ \E r \in table, d \in Damages :
         /\ \A q \in table : ~DamagedRow(cache, q)
         /\ DamagedRow(cache, Damage(r, d))
         /\ table' = (table \ {r}) \cup {Damage(r, d)}
    /\ UNCHANGED <<cache, schema, now, last, stored, scoringVars,
                   resolverVars, txnVars, batchVars>>

\* the db file turns out to hold a table of another layout (CREATE TABLE IF
\* NOT EXISTS leaves an existing table as it is)
SchemaDrift ==
    /\ cache # "none"
    /\ schema = "ok"
    /\ schema' = "incompatible"
    /\ UNCHANGED <<cache, table, now, last, stored, scoringVars,
                   resolverVars, txnVars, batchVars>>

CacheCall ==
    \/ SecStore \/ SecGet
    \/ PriceStore \/ PriceGet
    \/ ScreenerStore \/ ScreenerGetTickers

\* calls on an undamaged db file as time passes
CacheNext == CacheCall \/ Tick

CacheSpec == CacheInit /\ [][CacheNext]_vars

\* calls on a db file that is damaged between them
DamageNext == CacheCall \/ CorruptRecord \/ SchemaDrift

DamageSpec == CacheInit /\ [][DamageNext]_vars

-----------------------------------------------------------------------------
(* The transaction specification: several processes share one db file.  A
   store runs its statements inside `with sqlite3.connect(...) as conn`: the
   first statement opens a transaction and takes the write lock of the file,
   the statements act on the transaction's pages, leaving the block commits
   them together and an exception rolls them back.  A read sees the
   committed file. *)

Del(name) == [op |-> "delete", row |-> Row(name, "", NullText, NullStamp)]

Ins(row) == [op |-> "insert", row |-> row]

Rep(row) == [op |-> "replace", row |-> row]

\* the INSERT statements of ScreenerCache.store, rows without ticker skipped
RECURSIVE Inserts(_, _, _)
Inserts(name, rows, clock) ==
    IF rows = << >> THEN << >>
    ELSE IF rows[1] = "" THEN Inserts(name, Tail(rows), clock)
    ELSE <<Ins(Row(name, Strip(rows[1]), NullText, IsoFormat(clock)))>>
         \o Inserts(name, Tail(rows), clock)

\* the statements a store executes inside its with block
Statements(kind, key, data, rows, clock) ==
    IF kind = "screener" THEN <<Del(key)>> \o Inserts(key, rows, clock)
    ELSE <<Rep(Row(key, "", Text(json_dumps(data)), IsoFormat(clock)))>>

\* a statement hits the PRIMARY KEY: sqlite3.IntegrityError
Conflicts(work, st) ==
    /\ st.op = "insert"
    /\ \E r \in work : r.key = st.row.key /\ r.ticker = st.row.ticker

\* the pages of the transaction after a statement
Apply(work, st) ==
    IF st.op = "delete" THEN work \ RowsOf(work, st.row.key)
    ELSE IF st.op = "insert" THEN work \cup {st.row}
    ELSE InsertOrReplace(work, st.row)

RECURSIVE ApplyAll(_, _)
ApplyAll(work, sts) ==
    IF sts = << >> THEN work ELSE ApplyAll(Apply(work, sts[1]), Tail(sts))

AfterStatement_autocommit(db, work) == work

\* the committed file after a statement inside the with block: the
\* statement has changed the pages of the transaction only
AfterStatement(db, work) == db

\* some other process holds the write lock of the file
LockedByOther(p) == \E q \in Procs \ {p} : txn[q].pc = "writing"

\* the number of store calls that are begun
MaxStores == 2

\* what the latest read saw: the rows of a key, the number of the store call
\* that was the last committed one for the key at that time, and the store
\* calls whose transaction was open
NoRead == [op |-> "none", by |-> "", key |-> "", rows |-> {}, after |-> 0,
           during |-> {}]

TxnInit ==
    /\ cache \in {"sec", "screener"}
    /\ table = {}
    /\ schema = "ok"
    /\ now = 0
    /\ last = NoRead
    /\ stored = [k \in CacheKeys |-> 0]
    /\ TxnIdle
    /\ BatchIdle
    /\ ScoringIdle
    /\ ResolverIdle

\* store is called and connects; an empty payload returns before that
StoreBegin(p) ==
    /\ txn[p].pc = "idle"
    /\ Len(issued) < MaxStores
    /\ \E key \in CacheKeys, data \in SecPayloads, rows \in RowLists :
         /\ IF cache = "screener"
            THEN rows # << >> /\ data = PyNone
            ELSE ~Falsy(data) /\ rows = << >>
         /\ LET sts == Statements(cache, key, data, rows, now)
            IN  /\ txn' = [txn EXCEPT ![p] =
                        [@ EXCEPT !.pc = "connected",
                                  !.id = Len(issued) + 1, !.name = key,
                                  !.todo = sts, !.work = {}, !.before = {},
                                  !.outcome = "none"]]
                /\ issued' = Append(issued,
                        [by |-> p, name |-> key, at |-> now,
                         rows |-> RowsOf(ApplyAll({}, sts), key),
                         state |-> "begun"])
    /\ UNCHANGED <<cacheVars, scoringVars, resolverVars,
                   batchVars>>

Raised(p) ==
    /\ txn' = [txn EXCEPT ![p] = [@ EXCEPT !.pc = "idle", !.todo = << >>,
                                            !.work = {},
                                            !.outcome = "raised"]]
    /\ issued' = [issued EXCEPT ![txn[p].id].state = "failed"]

\* the first statement cannot take the write lock within the timeout:
\* OperationalError "database is locked", which store does not retry
Locked(p) ==
    /\ txn[p].pc = "connected"
    /\ LockedByOther(p)
    /\ Raised(p)
    /\ UNCHANGED <<cacheVars, scoringVars, resolverVars,
                   batchVars>>

\* the next statement of the with block is executed
Statement(p) ==
    /\ txn[p].pc \in {"connected", "writing"}
    /\ ~LockedByOther(p)
    /\ txn[p].todo # << >>
    /\ LET work == IF txn[p].pc = "connected" THEN table ELSE txn[p].work
           st == Head(txn[p].todo)
       IN  /\ ~Conflicts(work, st)
           /\ txn' = [txn EXCEPT ![p] =
                   [@ EXCEPT !.pc = "writing", !.todo = Tail(@),
                             !.work = Apply(work, st),
                             !.before = IF txn[p].pc = "connected"
                                        THEN table ELSE @]]
           /\ table' = AfterStatement(table, Apply(work, st))
    /\ UNCHANGED <<cache, schema, now, last, stored, issued, scoringVars,
                   resolverVars, batchVars>>

\* an INSERT raises IntegrityError: the with block rolls the transaction
\* back and store raises
StatementFails(p) ==
    /\ txn[p].pc = "writing"
    /\ txn[p].todo # << >>
    /\ Conflicts(txn[p].work, Head(txn[p].todo))
    /\ Raised(p)
    /\ UNCHANGED <<cacheVars, scoringVars, resolverVars,
                   batchVars>>

\* the with block is left: commit
Commit(p) ==
    /\ txn[p].pc = "writing"
    /\ txn[p].todo = << >>
    /\ table' = txn[p].work
    /\ txn' = [txn EXCEPT ![p] = [@ EXCEPT !.pc = "idle", !.work = {},
                                            !.outcome = "returned"]]
    /\ issued' = [issued EXCEPT ![txn[p].id].state = "committed"]
    /\ stored' = [stored EXCEPT ![txn[p].name] = txn[p].id]
    /\ UNCHANGED <<cache, schema, now, last, scoringVars, resolverVars,
                   batchVars>>

\* a process that is not storing reads the rows of a key (the SELECT of get
\* or get_tickers)
Read(p) ==
    /\ txn[p].pc = "idle"
    /\ \E key \in CacheKeys :
         /\ last' = [op |-> "read", by |-> p, key |-> key,
                     rows |-> RowsOf(table, key), after |-> stored[key],
                     during |-> {txn[q].id : q \in {w \in Procs :
                                     txn[w].pc = "writing"}}]
         /\ last' # last
    /\ UNCHANGED <<cache, table, schema, now, stored, txnVars, scoringVars,
                   resolverVars, batchVars>>

TxnNext ==
    \E p \in Procs :
       \/ StoreBegin(p) \/ Locked(p) \/ Statement(p)
       \/ StatementFails(p) \/ Commit(p) \/ Read(p)

TxnSpec == TxnInit /\ [][TxnNext]_vars

-----------------------------------------------------------------------------
(* The resolver specification: a document arrives and one resolver call is
   made on it. *)

ResolverInit ==
    /\ companyfacts \in Documents
    /\ call = NoCall
    /\ ScoringIdle
    /\ CacheIdle
    /\ TxnIdle
    /\ BatchIdle

ExtractFact ==
    /\ call.op = "none"
    /\ \E tags \in TagLists :
         LET r == extract_fact(companyfacts, tags)
         IN  call' = [NoCall EXCEPT !.op = "extract_fact", !.tags = tags,
                                    !.value = r.value, !.prov = r.prov]
    /\ UNCHANGED <<companyfacts, scoringVars, cacheVars, txnVars,
                   batchVars>>

ExtractHistoricalFacts ==
    /\ call.op = "none"
    /\ \E tag \in Tags, limit \in Limits :
         call' = [NoCall EXCEPT
                     !.op = "extract_historical_facts", !.tag = tag,
                     !.limit = limit,
                     !.hist = extract_historical_facts(companyfacts, tag, limit)]
    /\ UNCHANGED <<companyfacts, scoringVars, cacheVars, txnVars,
                   batchVars>>

ResolverNext == ExtractFact \/ ExtractHistoricalFacts

ResolverSpec == ResolverInit /\ [][ResolverNext]_vars

\* the number of additions a loosely formed document is built from
MaxLooseAdds == 2

LooseUnits == {"USD", "shares", "EUR"}

LooseKinds ==
    {Kind("10-K", 2, 2), Kind("10-K", 1, 1), Kind("10-Q", 2, 2),
     NoValKind, NoEndKind, EmptyGroup}

LooseChoices ==
    [ns : Namespaces, tag : {"Revenues"}, unit : LooseUnits,
     kind : LooseKinds]
    \cup [ns : Namespaces, tag : {"Revenues"}, unit : {"USD"},
          kind : {NoEntry}]

\* documents of one tag with up to three unit groups, empty unit groups and
\* entries that lack fields
LooseDocuments ==
    {[shape |-> "absent", ns |-> EmptyDoc.ns],
     [shape |-> "no_facts", ns |-> EmptyDoc.ns]}
    \cup {BuildDoc(adds) :
             adds \in UNION {[1..n -> LooseChoices] : n \in 0..MaxLooseAdds}}

LooseInit ==
    /\ companyfacts \in LooseDocuments
    /\ call = NoCall
    /\ ScoringIdle
    /\ CacheIdle
    /\ TxnIdle
    /\ BatchIdle

\* the resolver calls on loosely formed documents
LooseSpec == LooseInit /\ [][ResolverNext]_vars

-----------------------------------------------------------------------------
(* The scoring specification: the engine is constructed from a FactMapping
   and a history, then evaluate_all is called once. *)

\* the inputs that can be present: the fact keys and the history
InputNames == FactKeys \cup {"NetIncomeLoss history"}

ScoringInit ==
    /\ \E S \in {T \in SUBSET InputNames : Cardinality(T) <= MaxPresent} :
         /\ \E g \in [S \cap FactKeys -> FactVals] :
              facts = [k \in FactKeys |->
                          IF k \in S THEN Some(g[k]) ELSE None]
         /\ IF "NetIncomeLoss history" \in S
            THEN history \in HistSamples \ {<< >>}
            ELSE history = << >>
    /\ results = << >>
    /\ outcome = "idle"
    /\ ResolverIdle
    /\ CacheIdle
    /\ TxnIdle
    /\ BatchIdle

\* evaluate_all: the ten results, or the exception of the first test that raised
EvaluateAll ==
    /\ outcome = "idle"
    /\ LET r == evaluate_all(facts, history)
       IN  IF \E i \in DOMAIN r : r[i].status \in Exceptions
           THEN outcome' = "raised" /\ results' = << >>
           ELSE outcome' = "returned" /\ results' = r
    /\ UNCHANGED <<facts, history, resolverVars, cacheVars, txnVars,
                   batchVars>>

ScoringNext == EvaluateAll

ScoringSpec == ScoringInit /\ [][ScoringNext]_vars

-----------------------------------------------------------------------------
(* The engine specification: evaluate_all is called twice on one engine. *)

\* at most this many inputs are present when the engine is called twice
MaxGiven == 2

EngineInit ==
    /\ \E S \in {T \in SUBSET InputNames : Cardinality(T) <= MaxGiven} :
         /\ \E g \in [S \cap FactKeys -> FactVals] :
              facts = [k \in FactKeys |->
                          IF k \in S THEN Some(g[k]) ELSE None]
         /\ IF "NetIncomeLoss history" \in S
            THEN history \in HistSamples \ {<< >>}
            ELSE history = << >>
    /\ results = << >>
    /\ outcome = "idle"
    /\ disk = NoDisk
    /\ OutsideIdle
    /\ batch = NoBatch
    /\ client = NoRequest
    /\ ResolverIdle
    /\ CacheIdle
    /\ TxnIdle

\* evaluate_all called again on the same engine: self.facts and
\* self.historical_facts are only read, each test builds a new dict
EvaluateAgain ==
    /\ outcome = "returned"
    /\ second = << >>
    /\ second' = evaluate_all(facts, history)
    /\ UNCHANGED <<scoringVars, resolverVars, cacheVars, txnVars, batch,
                   client, disk, source, sync>>

EngineNext == EvaluateAll \/ EvaluateAgain

EngineSpec == EngineInit /\ [][EngineNext]_vars

-----------------------------------------------------------------------------
(* The batch specification: PriceDataManager.batch_fetch_prices over a list
   of tickers.  Each fetch_task is one call of get_daily_prices, run by a
   worker thread; the tasks of one slice of `workers` tickers are submitted
   together and their futures are collected in order. *)

\* the longest list of tickers handed to batch_fetch_prices
MaxBatch == 2

TickerLists == UNION {[1..n -> CacheKeys] : n \in 0..MaxBatch}

WorkerCounts == {1, 2}

\* what yfinance answers for a ticker: an exception, an empty frame, or the
\* ticker's own frame
ProviderFrame(ticker) ==
    IF ticker = "k1" THEN DataFrame(<<Item("", 1, 10)>>)
    ELSE DataFrame(<<Item("", 1, 20)>>)

ProviderAnswers == {"error", "empty", "data"}

\* how one fetch_task ended: df is PyNone when get_daily_prices returned None
Fetched(status, df, why, tbl) ==
    [status |-> status, df |-> df, why |-> why, table |-> tbl]

NotRun == [status |-> "pending", df |-> PyNone, why |-> ""]

\* the task was taken up by a worker thread and has not ended
InFlight == [status |-> "in flight", df |-> PyNone, why |-> ""]

\* the rest of get_daily_prices after a cache miss: the try block
FetchAndStore(tbl, sch, clock, ticker, answer, sscript) ==
    LET df == ProviderFrame(ticker)
        s == PriceCache_store(tbl, sch, clock, ticker, df, sscript)
    IN  IF answer = "error"
        THEN Fetched("returned", PyNone, "provider error", tbl)
        ELSE IF answer = "empty"
        THEN Fetched("returned", PyNone, "empty response", tbl)
        ELSE IF s.status = "raised"
        THEN Fetched("returned", PyNone, "cache write error", tbl)
        ELSE Fetched("returned", df, "fetched", s.table)

\* get_daily_prices(ticker, days, force_refresh): the cache is read outside
\* the try block, with the default days of PriceCache.get
get_daily_prices(tbl, sch, clock, ticker, force, gscript, answer, sscript) ==
    LET g == PriceCache_get(tbl, sch, clock, ticker, 1, gscript)
    IN  IF force
        THEN FetchAndStore(tbl, sch, clock, ticker, answer, sscript)
        ELSE IF g.status = "raised"
        THEN Fetched("raised", PyNone, "cache read error", tbl)
        ELSE IF g.value.present
        THEN Fetched("returned", g.value.v, "cache hit", tbl)
        ELSE FetchAndStore(tbl, sch, clock, ticker, answer, sscript)

\* tickers[i:i + batch_size] as the set of its positions
Slice(b) ==
    {i \in DOMAIN b.items : b.at < i /\ i <= b.at + b.workers}

\* results[ticker] = df
SetItem(res, ticker, df) ==
    {r \in res : r.ticker # ticker} \cup {[ticker |-> ticker, df |-> df]}

\* for future in futures: ticker, df = future.result(); ... from position i
RECURSIVE CollectFrom(_, _, _)
CollectFrom(b, i, res) ==
    IF i \notin Slice(b) THEN [raised |-> FALSE, results |-> res]
    ELSE IF b.done[i].status = "raised"
    THEN [raised |-> TRUE, results |-> res]
    ELSE IF b.done[i].df # PyNone
    THEN CollectFrom(b, i + 1, SetItem(res, b.items[i], b.done[i].df))
    ELSE CollectFrom(b, i + 1, res)

PriceTables ==
    {{}, {Row("k1", "", Text(to_json(DataFrame(<<Item("", 1, 11)>>))),
              IsoFormat(0))}}

BatchInit ==
    /\ cache = "price"
    /\ table \in PriceTables
    /\ schema = "ok"
    /\ now = 0
    /\ last = NoCacheCall
    /\ stored = [k \in CacheKeys |-> NoStore]
    /\ \E tickers \in TickerLists, workers \in WorkerCounts,
          force \in BOOLEAN :
         batch = [op |-> "batch_fetch_prices", items |-> tickers,
                  workers |-> workers, force |-> force, at |-> 0,
                  done |-> [i \in DOMAIN tickers |-> NotRun],
                  fetches |-> [i \in DOMAIN tickers |-> 0],
                  results |-> {}, status |-> "running"]
    /\ client = NoRequest
    /\ HostIdle
    /\ ScoringIdle
    /\ ResolverIdle
    /\ TxnIdle

\* executor.submit(fetch_task, t): a worker thread takes up the task of
\* position i of the current slice
StartFetch(i) ==
    /\ batch.op = "batch_fetch_prices"
    /\ batch.status = "running"
    /\ i \in Slice(batch)
    /\ batch.done[i] = NotRun
    /\ batch' = [batch EXCEPT !.done[i] = InFlight,
                              !.fetches[i] = @ + 1]
    /\ UNCHANGED <<client, hostVars, cacheVars, scoringVars, resolverVars,
                   txnVars>>

\* the worker thread completes fetch_task: get_daily_prices of the ticker
FinishFetch(i) ==
    /\ batch.op = "batch_fetch_prices"
    /\ batch.status = "running"
    /\ i \in Slice(batch)
    /\ batch.done[i] = InFlight
    /\ \E gscript \in FaultScripts, answer \in ProviderAnswers,
          sscript \in FaultScripts :
         LET e == get_daily_prices(table, schema, now, batch.items[i],
                                   batch.force, gscript, answer, sscript)
         IN  /\ table' = e.table
             /\ batch' = [batch EXCEPT !.done[i] =
                             [status |-> e.status, df |-> e.df,
                              why |-> e.why]]
    /\ UNCHANGED <<cache, schema, now, last, stored, client, hostVars,
                   scoringVars, resolverVars, txnVars>>

\* the main thread takes the results of the slice in order, then goes on to
\* the next slice or returns; an exception of a task leaves the call
Collect ==
    /\ batch.op = "batch_fetch_prices"
    /\ batch.status = "running"
    /\ \A i \in Slice(batch) : batch.done[i] \notin {NotRun, InFlight}
    /\ LET c == CollectFrom(batch, batch.at + 1, batch.results)
           next == batch.at + batch.workers
       IN  batch' = [batch EXCEPT
                        !.results = c.results,
                        !.at = IF c.raised THEN @ ELSE next,
                        !.status = IF c.raised THEN "raised"
                                   ELSE IF next >= Len(batch.items)
                                   THEN "returned" ELSE @]
    /\ UNCHANGED <<client, hostVars, cacheVars, scoringVars, resolverVars,
                   txnVars>>

BatchNext ==
    \/ \E i \in 1..MaxBatch : StartFetch(i)
    \/ \E i \in 1..MaxBatch : FinishFetch(i)
    \/ Collect

BatchSpec == BatchInit /\ [][BatchNext]_vars

-----------------------------------------------------------------------------
(* The analysis specification: the batch mode of analyze.py.  main walks the
   list of tickers of a screener and calls run_analysis for each; a ticker is
   given with what resolve_ticker and get_companyfacts answer for it. *)

\* the longest list of tickers of a screener
MaxTickers == 2

TAGS_MAP ==
    [k \in FactKeys |->
        CASE k = "cash" -> <<"CashAndCashEquivalentsAtCarryingValue">>
          [] k = "investments" -> <<"ShortTermInvestments">>
          [] k = "debt" -> <<"LongTermDebt", "LongTermDebtNoncurrent">>
          [] k = "liabilities" -> <<"Liabilities">>
          [] k = "equity" -> <<"StockholdersEquity">>
          [] k = "ocf" -> <<"NetCashProvidedByUsedInOperatingActivities">>
          [] k = "capex" -> <<"PaymentsToAcquirePropertyPlantAndEquipment">>
          [] k = "income" -> <<"NetIncomeLoss">>
          [] k = "current_assets" -> <<"AssetsCurrent">>
          [] k = "current_liabilities" -> <<"LiabilitiesCurrent">>
          [] k = "oi" -> <<"OperatingIncomeLoss">>
          [] k = "revenue" ->
                <<"Revenues",
                  "RevenueFromContractWithCustomerExcludingAssessedTax",
                  "SalesRevenueNet">>
          [] k = "assets" -> <<"Assets">>
          [] k = "interest" -> <<"InterestExpense">>]

\* every tag run_analysis asks for
AnalysisTags ==
    UNION {{TAGS_MAP[k][i] : i \in DOMAIN TAGS_MAP[k]} : k \in FactKeys}
    \cup {"ShortTermBorrowings"}

\* a 10-K entry of fiscal year fy with the number val (NoVal: without 'val')
Annual(val, fy) == [val |-> val, end |-> fy, fy |-> fy, form |-> "10-K"]

\* the NetIncomeLoss entries of the filings tried, as filed
IncomeSeries ==
    {<< >>, <<Annual(5, 2)>>, <<Annual(-3, 1), Annual(5, 2)>>,
     <<Annual(NoVal, 2)>>, <<Annual(5, 2), Annual(NoVal, 1)>>}

DebtSeries == {<< >>, <<Annual(100, 2)>>}

\* the ShortTermBorrowings entries: none, a balance, or a reported zero
BorrowingsSeries == {<< >>, <<Annual(100, 2)>>, <<Annual(0, 2)>>}

UsdTag(entries) ==
    IF entries = << >> THEN EmptyTag
    ELSE [present |-> TRUE,
          units |-> << [name |-> "USD", entries |-> entries] >>]

\* a filings document with us-gaap NetIncomeLoss, LongTermDebt and
\* ShortTermBorrowings entries and no other tag
Filing(income, debt, borrowings) ==
    [shape |-> "facts",
     ns |-> [n \in Namespaces |->
                IF n = "us-gaap"
                THEN [present |-> TRUE,
                      tags |-> [t \in AnalysisTags |->
                                   IF t = "NetIncomeLoss" THEN UsdTag(income)
                                   ELSE IF t = "LongTermDebt"
                                   THEN UsdTag(debt)
                                   ELSE IF t = "ShortTermBorrowings"
                                   THEN UsdTag(borrowings)
                                   ELSE EmptyTag]]
                ELSE [present |-> FALSE,
                      tags |-> [t \in AnalysisTags |-> EmptyTag]]]]

NoFiling == [shape |-> "absent", ns |-> Filing(<< >>, << >>, << >>).ns]

\* what get_companyfacts answers, in short: None, a document without
\* 'facts', or a filing given by the entries of its three tags
Answer(shape, income, debt, borrowings) ==
    [shape |-> shape, income |-> income, debt |-> debt,
     borrowings |-> borrowings]

FactsData ==
    {Answer("absent", << >>, << >>, << >>),
     Answer("no_facts", << >>, << >>, << >>)}
    \cup {Answer("facts", i, d, b) : i \in IncomeSeries, d \in DebtSeries,
                                     b \in BorrowingsSeries}

\* the document of an answer
Document(a) ==
    IF a.shape = "facts" THEN Filing(a.income, a.debt, a.borrowings)
    ELSE [shape |-> a.shape, ns |-> NoFiling.ns]

\* a ticker of the list: "" is blank after strip(); "U" is not in the cik
\* map; facts_data is the answer of get_companyfacts for its cik
TickerCases ==
    [ticker : {"", "U"}, facts_data : {Answer("absent", << >>, << >>, << >>)}]
    \cup [ticker : {"T"}, facts_data : FactsData]

\* client.resolve_ticker(ticker): the cik, None for a ticker not in the map
resolve_ticker(ticker) == IF ticker = "T" THEN Some(1) ELSE None

\* extracted['debt'] after adding the short-term borrowings
WithBorrowings(debt, std_val) ==
    LET Truthy(o) == ~IsNone(o) /\ o.v # 0
    IN  IF Truthy(std_val) /\ Truthy(debt) THEN Some(debt.v + std_val.v)
        ELSE IF Truthy(std_val) THEN std_val
        ELSE debt

\* the FactMapping run_analysis hands to the engine
Extracted(facts_data) ==
    LET first == [k \in FactKeys |-> extract_fact(facts_data, TAGS_MAP[k]).value]
        std_val == extract_fact(facts_data, <<"ShortTermBorrowings">>).value
    IN  [first EXCEPT !["debt"] = WithBorrowings(@, std_val)]

MainInit ==
    /\ \E tickers \in UNION {[1..n -> TickerCases] : n \in 1..MaxTickers} :
         batch = [op |-> "main", items |-> tickers, at |-> 0,
                  done |-> [i \in DOMAIN tickers |-> "pending"],
                  status |-> "running"]
    /\ client = NoRequest
    /\ HostIdle
    /\ ScoringIdle
    /\ ResolverIdle
    /\ CacheIdle
    /\ TxnIdle

\* one turn of `for t in tickers: run_analysis(client, t, args)`.
\* run_analysis returns False for a ticker that is blank, not in the cik map
\* or without filings; otherwise it extracts the facts and the history and
\* has the engine evaluate them.  An exception of evaluate_all leaves
\* run_analysis and main.
RunAnalysis ==
    /\ batch.op = "main"
    /\ batch.status = "running"
    /\ batch.at < Len(batch.items)
    /\ LET i == batch.at + 1
           ticker == batch.items[i].ticker
       IN  IF \/ ticker = ""
              \/ IsNone(resolve_ticker(ticker))
              \/ batch.items[i].facts_data.shape = "absent"
           THEN /\ batch' = [batch EXCEPT !.at = i, !.done[i] = "False"]
                /\ UNCHANGED <<scoringVars, resolverVars>>
           ELSE /\ companyfacts' = Document(batch.items[i].facts_data)
                /\ facts' = Extracted(companyfacts')
                /\ history' = extract_historical_facts(companyfacts',
                                                       "NetIncomeLoss", 10)
                /\ outcome' = IF \E j \in 1..10 :
                                    evaluate_all(facts', history')[j].status
                                        \in Exceptions
                               THEN "raised" ELSE "returned"
                /\ results' = IF outcome' = "raised" THEN << >>
                              ELSE evaluate_all(facts', history')
                /\ batch' = [batch EXCEPT
                                 !.at = i,
                                 !.done[i] = IF outcome' = "raised"
                                             THEN "raised" ELSE "True",
                                 !.status = IF outcome' = "raised"
                                            THEN "raised" ELSE @]
                /\ UNCHANGED call
    /\ UNCHANGED <<client, hostVars, cacheVars, txnVars>>

\* return 0 after the loop
MainReturn ==
    /\ batch.op = "main"
    /\ batch.status = "running"
    /\ batch.at = Len(batch.items)
    /\ batch' = [batch EXCEPT !.status = "returned"]
    /\ UNCHANGED <<client, hostVars, cacheVars, scoringVars, resolverVars,
                   txnVars>>

MainNext == RunAnalysis \/ MainReturn

MainSpec == MainInit /\ [][MainNext]_vars

-----------------------------------------------------------------------------
(* The client specification: SECClient.get_companyfacts against the filings
   provider and the SEC cache.  A call is given the answers of the provider
   to its successive requests and the answers of sqlite to its cache read
   and to its cache writes. *)

\* the calls of get_companyfacts in one run
MaxClientCalls == 2

\* for delay in [2, 4, 8]
Delays == <<2, 4, 8>>

\* what one requests.get gives: status 200 with a document, 404, another
\* status, or an exception
Answers == {"200", "404", "500", "exception"}

AnswerScripts == [DOMAIN Delays -> Answers]

\* what sqlite answers to the one attempt of SECCache.get and to the
\* attempts of SECCache.store, which treat every error alike
ClientFaults == {"ok", "database is locked"}

\* response.json() of a 200 answer for cik
ProviderDoc(cik) ==
    IF cik = "k1" THEN PyDict(<<Item("facts", 0, 1)>>)
    ELSE PyDict(<<Item("facts", 0, 2)>>)

\* how a call of get_companyfacts ended
Answered(value, requests, sleeps, answer, wrote, tbl) ==
    [value |-> value, requests |-> requests, sleeps |-> sleeps,
     answer |-> answer, wrote |-> wrote, table |-> tbl]

\* the loop over the delays from request i on; sleeps are the delays slept
RECURSIVE RequestLoop_retry_404(_, _, _, _, _, _, _, _)
RequestLoop_retry_404(tbl, sch, clock, cik, script, sfault, i, sleeps) ==
    IF i > Len(Delays)
    THEN Answered(PyNone, Len(Delays), sleeps, script[Len(Delays)], FALSE,
                  tbl)
    ELSE LET data == ProviderDoc(cik)
             s == SECCache_store(tbl, sch, clock, cik, data, sfault)
         IN  IF script[i] = "200" /\ s.status = "returned"
             THEN Answered(data, i, sleeps, "200", s.wrote, s.table)
             ELSE RequestLoop_retry_404(tbl, sch, clock, cik, script, sfault,
                                        i + 1, Append(sleeps, Delays[i]))

RECURSIVE RequestLoop(_, _, _, _, _, _, _, _)
RequestLoop(tbl, sch, clock, cik, script, sfault, i, sleeps) ==
    IF i > Len(Delays)
    THEN Answered(PyNone, Len(Delays), sleeps, script[Len(Delays)], FALSE,
                  tbl)
    ELSE LET data == ProviderDoc(cik)
             s == SECCache_store(tbl, sch, clock, cik, data, sfault)
         IN  IF script[i] = "200" /\ s.status = "returned"
             THEN Answered(data, i, sleeps, "200", s.wrote, s.table)
             ELSE IF script[i] = "404"
             THEN Answered(PyNone, i, sleeps, "404", FALSE, tbl)
             \* another status, an exception of requests.get, or the
             \* exception of cache.store caught by `except Exception: pass`
             ELSE RequestLoop(tbl, sch, clock, cik, script, sfault, i + 1,
                              Append(sleeps, Delays[i]))

\* get_companyfacts(cik, force_refresh)
get_companyfacts(tbl, sch, clock, cik, force, gfault, script, sfault) ==
    LET cached == SECCache_get(tbl, sch, clock, cik, 7, gfault).value
    IN  IF ~force /\ cached.present /\ ~Falsy(cached.v)
        THEN Answered(cached.v, 0, << >>, "none", FALSE, tbl)
        ELSE RequestLoop(tbl, sch, clock, cik, script, sfault, 1, << >>)

\* the sec_cache table a run starts with: empty, or a document of an earlier
\* run that is still fresh, or one that is older than the seven days
SecTables ==
    {{}, {Row("k1", "", Text(json_dumps(ProviderDoc("k1"))), IsoFormat(0))},
     {Row("k1", "", Text(json_dumps(ProviderDoc("k1"))), IsoFormat(0 - 7))}}

ClientInit ==
    /\ cache = "sec"
    /\ table \in SecTables
    /\ schema = "ok"
    /\ now = 0
    /\ last = NoCacheCall
    /\ stored = [k \in CacheKeys |-> NoStore]
    /\ client = NoRequest
    /\ HostIdle
    /\ batch = NoBatch
    /\ ScoringIdle
    /\ ResolverIdle
    /\ TxnIdle

\* one call of get_companyfacts; notfound keeps the identifiers an earlier
\* call ended on a 404 for
GetCompanyfacts ==
    /\ cache = "sec"
    /\ client.calls < MaxClientCalls
    /\ \E cik \in CacheKeys, force \in BOOLEAN, gfault \in ClientFaults,
          script \in AnswerScripts, sfault \in ClientFaults :
         LET e == get_companyfacts(table, schema, now, cik, force, gfault,
                                   script, sfault)
         IN  /\ table' = e.table
             /\ client' = [calls |-> client.calls + 1, cik |-> cik,
                           force |-> force,
                           first |-> IF e.requests = 0 THEN "none"
                                     ELSE script[1],
                           value |-> e.value, requests |-> e.requests,
                           sleeps |-> e.sleeps, answer |-> e.answer,
                           wrote |-> e.wrote, before |-> table,
                           ok200 |-> FirstTrue([i \in 1..e.requests |->
                                                   script[i] = "200"]),
                           storefault |-> sfault,
                           notfound |-> client.notfound \cup
                               (IF client.answer = "404" THEN {client.cik}
                                ELSE {})]
    /\ UNCHANGED <<cache, schema, now, last, stored, batch, hostVars,
                   scoringVars, resolverVars, txnVars>>

ClientNext == GetCompanyfacts

ClientSpec == ClientInit /\ [][ClientNext]_vars

-----------------------------------------------------------------------------
(* The construction specification: SECCache, PriceCache and ScreenerCache
   objects are constructed on a db path whose directory, file and table may
   or may not exist, and whose table may be of the older shape without the
   optional columns.  Stores are made between constructions. *)

\* the constructions of a cache object on one db path
MaxOpens == 2

\* the columns of CREATE TABLE that the older tables already had
RequiredColumns(kind) ==
    IF kind = "sec" THEN {"cik", "data", "cached_at"}
    ELSE IF kind = "price" THEN {"ticker", "data", "cached_at"}
    ELSE {"screener_name", "ticker", "updated_at"}

\* the columns added later: _add_metadata_columns_if_missing and
\* _add_columns_if_missing
OptionalColumns(kind) ==
    IF kind = "sec" THEN {}
    ELSE IF kind = "price" THEN {"pe_ratio", "sector", "industry"}
    ELSE {"Company", "Sector", "Industry", "Country", "PE", "MarketCap"}

\* os.makedirs(parent, exist_ok=True)
_ensure_db_dir(d) == [d EXCEPT !.dir = TRUE]

CreateTable_replace(d, kind) ==
    [d EXCEPT !.exists = TRUE,
              !.columns = RequiredColumns(kind) \cup OptionalColumns(kind),
              !.rows = {}]

\* CREATE TABLE IF NOT EXISTS: nothing happens to a table that exists
CreateTable(d, kind) ==
    IF d.exists THEN d
    ELSE [d EXCEPT !.exists = TRUE,
                   !.columns = RequiredColumns(kind) \cup OptionalColumns(kind),
                   !.rows = {}]

\* ALTER TABLE ... ADD COLUMN col: the OperationalError of a column that is
\* there is passed over; the rows get NULL in a new column
RECURSIVE AddColumns(_, _)
AddColumns(d, cols) ==
    IF cols = {} THEN d
    ELSE LET col == CHOOSE c \in cols : TRUE
         IN  AddColumns(IF col \in d.columns THEN d
                        ELSE [d EXCEPT !.columns = @ \cup {col}],
                        cols \ {col})

\* __init__: _ensure_db_dir, then _create_table
Constructed(d, kind) ==
    AddColumns(CreateTable(_ensure_db_dir(d), kind), OptionalColumns(kind))

\* SELECT <cols> FROM the table: the rows, when the table has the columns
Select(d, cols) ==
    IF d.exists /\ cols \subseteq d.columns
    THEN [ok |-> TRUE, rows |-> d.rows] ELSE [ok |-> FALSE, rows |-> {}]

\* the records an earlier run left in the table
OldRows(kind) ==
    IF kind = "screener"
    THEN {{}, {Row("k1", "A", NullText, IsoFormat(0))},
          {Row("k1", "A", NullText, IsoFormat(0)),
           Row("k1", "B", NullText, IsoFormat(0))}}
    ELSE IF kind = "price"
    THEN {{}, {Row("k1", "", Text(to_json(DataFrame(<<Item("", 1, 10)>>))),
                   IsoFormat(0))}}
    ELSE {{}, {Row("k1", "", Text(json_dumps(PyDict(<<Item("facts", 0, 1)>>))),
                   IsoFormat(0))}}

\* how the db path is found: no directory, no file, a table of the older
\* shape, or a table with all columns
DiskShapes(kind) ==
    {[dir |-> FALSE, exists |-> FALSE, columns |-> {}, rows |-> {}],
     [dir |-> TRUE, exists |-> FALSE, columns |-> {}, rows |-> {}]}
    \cup {[dir |-> TRUE, exists |-> TRUE, columns |-> RequiredColumns(kind),
           rows |-> r] : r \in OldRows(kind)}
    \cup {[dir |-> TRUE, exists |-> TRUE,
           columns |-> RequiredColumns(kind) \cup OptionalColumns(kind),
           rows |-> r] : r \in OldRows(kind)}

ConstructInit ==
    /\ cache \in {"sec", "price", "screener"}
    /\ \E d \in DiskShapes(cache) :
         /\ table = d.rows
         /\ disk = [dir |-> d.dir, exists |-> d.exists,
                    columns |-> d.columns, opened |-> 0,
                    was |-> IF ~d.dir THEN "no directory"
                            ELSE IF ~d.exists THEN "no table"
                            ELSE IF d.columns = RequiredColumns(cache)
                                    /\ OptionalColumns(cache) # {}
                            THEN "older table" ELSE "table"]
    /\ schema = "ok"
    /\ now = 0
    /\ last = NoCacheCall
    /\ stored = [k \in CacheKeys |-> NoStore]
    /\ batch = NoBatch
    /\ client = NoRequest
    /\ OutsideIdle
    /\ ScoringIdle
    /\ ResolverIdle
    /\ TxnIdle

\* SECCache(db_path), PriceCache(db_path) or ScreenerCache(db_path)
Construct ==
    /\ disk.opened < MaxOpens
    /\ LET d == Constructed([dir |-> disk.dir, exists |-> disk.exists,
                             columns |-> disk.columns, rows |-> table],
                            cache)
       IN  /\ table' = d.rows
           /\ disk' = [disk EXCEPT !.dir = d.dir, !.exists = d.exists,
                                   !.columns = d.columns,
                                   !.opened = @ + 1]
    /\ UNCHANGED <<cache, schema, now, last, stored, batch, client,
                   outsideVars, scoringVars, resolverVars, txnVars>>

\* a store through the constructed object
StoreAfterConstruct ==
    /\ disk.opened > 0
    /\ SecStore \/ PriceStore \/ ScreenerStore

ConstructNext == Construct \/ StoreAfterConstruct

ConstructSpec == ConstructInit /\ [][ConstructNext]_vars

-----------------------------------------------------------------------------
(* The staleness specification: one external data source is read while its
   cached record is fresh, stale or missing and its provider answers or
   fails.  The sources are the two json files (the ticker-to-CIK map, the
   S&P-500 list), the filings cache behind get_companyfacts and the price
   cache behind get_daily_prices. *)

\* time.time() - mtime < 30 * 24 * 3600, in days
CIK_MAP_TTL_DAYS == 30

\* TTL_DAYS of sp500_tickers.py
SP500_TTL_DAYS == 7

\* the calls made on a file cache
MaxFileCalls == 2

\* what a file holds: the json an earlier run wrote, what the provider
\* answers now, or text json.load raises on
FileContents == {"earlier", "corrupt"}

FileWritten(clock) == [exists |-> TRUE, mtime |-> clock, content |-> "provider"]

FileCall(status, value, file) ==
    [status |-> status, value |-> value, file |-> file]

\* the except branch without the second look at the file
get_cik_map_no_fallback(file, clock, answer) ==
    IF file.exists /\ clock - file.mtime < CIK_MAP_TTL_DAYS
       /\ file.content # "corrupt"
    THEN FileCall("returned", file.content, file)
    ELSE IF answer = "ok"
    THEN FileCall("returned", "provider", FileWritten(clock))
    ELSE FileCall("returned", "empty", file)

\* get_cik_map(): the file when it is younger than 30 days and loads, else
\* the provider's map, written to the file; when the fetch raises, the file
\* whatever its age, and {} without a file
get_cik_map(file, clock, answer) ==
    IF file.exists /\ clock - file.mtime < CIK_MAP_TTL_DAYS
       /\ file.content # "corrupt"
    THEN FileCall("returned", file.content, file)
    ELSE IF answer = "ok"
    THEN FileCall("returned", "provider", FileWritten(clock))
    ELSE IF file.exists
    \* json.load inside the except handler is not guarded
    THEN (IF file.content = "corrupt" THEN FileCall("raised", "", file)
          ELSE FileCall("returned", file.content, file))
    ELSE FileCall("returned", "empty", file)

\* get_sp500_tickers(): the same over the list file, with 7 days and []
get_sp500_tickers(file, clock, answer) ==
    IF file.exists /\ clock - file.mtime < SP500_TTL_DAYS
       /\ file.content # "corrupt"
    THEN FileCall("returned", file.content, file)
    ELSE IF answer = "ok"
    THEN FileCall("returned", "provider", FileWritten(clock))
    ELSE IF file.exists
    THEN (IF file.content = "corrupt" THEN FileCall("raised", "", file)
          ELSE FileCall("returned", file.content, file))
    ELSE FileCall("returned", "empty", file)

TtlOf(name) == IF name = "cik_map" THEN CIK_MAP_TTL_DAYS ELSE SP500_TTL_DAYS

\* the files a run finds: none, or one written ttl - 1, ttl or ttl + 1 days
\* ago, or today
FilesFound(name) ==
    {NoFile}
    \cup {[exists |-> TRUE, mtime |-> 0 - age, content |-> c] :
             age \in {0, TtlOf(name) - 1, TtlOf(name), TtlOf(name) + 1},
             c \in FileContents}

\* the price_cache table with a frame stored a day ago, which is stale
StalePriceTable ==
    {Row("k1", "", Text(to_json(DataFrame(<<Item("", 1, 11)>>))),
         IsoFormat(0 - 1))}

StaleInit ==
    /\ schema = "ok"
    /\ now = 0
    /\ last = NoCacheCall
    /\ stored = [k \in CacheKeys |-> NoStore]
    /\ client = NoRequest
    /\ disk = NoDisk
    /\ second = << >>
    /\ sync = NoSync
    /\ \/ /\ cache = "none"
          /\ table = {}
          /\ batch = NoBatch
          /\ \E name \in {"cik_map", "sp500"} :
               \E f \in FilesFound(name) :
                  source = [NoSource EXCEPT !.name = name, !.file = f]
       \/ /\ cache = "sec"
          /\ table \in SecTables
          /\ batch = NoBatch
          /\ source = NoSource
       \/ /\ cache = "price"
          /\ table \in PriceTables \cup {StalePriceTable}
          /\ \E ticker \in CacheKeys :
               batch = [op |-> "batch_fetch_prices", items |-> <<ticker>>,
                        workers |-> 1, force |-> FALSE, at |-> 0,
                        done |-> <<NotRun>>, fetches |-> <<0>>,
                        results |-> {}, status |-> "running"]
          /\ source = NoSource
    /\ ScoringIdle
    /\ ResolverIdle
    /\ TxnIdle

FileCalled(name, e, answer) ==
    /\ source' = [source EXCEPT !.file = e.file, !.calls = @ + 1,
                                !.status = e.status, !.value = e.value,
                                !.answer = answer, !.before = source.file]
    /\ UNCHANGED <<second, sync, disk, batch, client, cacheVars,
                   scoringVars, resolverVars, txnVars>>

GetCikMap ==
    /\ source.name = "cik_map"
    /\ source.calls < MaxFileCalls
    /\ \E answer \in {"ok", "error"} :
         FileCalled("cik_map", get_cik_map(source.file, now, answer), answer)

GetSp500Tickers ==
    /\ source.name = "sp500"
    /\ source.calls < MaxFileCalls
    /\ \E answer \in {"ok", "error"} :
         FileCalled("sp500", get_sp500_tickers(source.file, now, answer),
                    answer)

StaleNext ==
    \/ GetCikMap
    \/ GetSp500Tickers
    \/ GetCompanyfacts
    \/ StartFetch(1)
    \/ FinishFetch(1)
    \/ Collect

StaleSpec == StaleInit /\ [][StaleNext]_vars

-----------------------------------------------------------------------------
(* The sync specification: finviz_sync._sync_one on a screener cache.  The
   screener service answers with an exception or a table of rows; finviz
   get_stock answers each ticker with its data or an exception. *)

\* the calls of _sync_one that are made
MaxSyncCalls == 1

\* what Screener.init_from_url answers: an exception ("error"), or the
\* "Ticker" cells of stock_list.data, "" for a row without one
ScreenerLoads == {<<"error">>, << >>, <<"">>, <<"A">>, <<"B", "A">>,
                  <<"A", "">>, <<"A", " A">>}

\* str(t).strip() of the rows with a non-blank ticker
RECURSIVE StrippedTickers(_)
StrippedTickers(cells) ==
    IF cells = << >> THEN << >>
    ELSE IF cells[1] = "" THEN StrippedTickers(Tail(cells))
    ELSE <<Strip(cells[1])>> \o StrippedTickers(Tail(cells))

\* the metadata columns of a row: what get_stock answered
Enriched == Text(<<"info">>)

\* the rows as stored, with the metadata of the rows list: None for the
\* tickers whose get_stock raised
WithMetadata(tbl, name, failed) ==
    {IF r.key = name
     THEN [r EXCEPT !.data = IF r.ticker \in failed THEN NullText
                              ELSE Enriched]
     ELSE r : r \in tbl}

Synced(status, requests, lookups, tickers, wrote, tbl) ==
    [status |-> status, requests |-> requests, lookups |-> lookups,
     tickers |-> tickers, wrote |-> wrote, table |-> tbl]

\* the rest of _sync_one once the cache did not answer
LoadEnrichStore(tbl, sch, clock, name, load, failed, script) ==
    LET tickers == StrippedTickers(load)
        s == ScreenerCache_store(tbl, sch, clock, name, tickers, script)
    IN  IF load = <<"error">> THEN Synced("1", 1, 0, << >>, FALSE, tbl)
        ELSE IF tickers = << >> THEN Synced("1", 1, 0, << >>, FALSE, tbl)
        ELSE IF s.status = "raised"
        THEN Synced("raised", 1, Len(tickers), tickers, FALSE, tbl)
        ELSE Synced("0", 1, Len(tickers), tickers, s.wrote,
                    IF s.wrote THEN WithMetadata(s.table, name, failed)
                    ELSE tbl)

\* the cache answered: not forced, is_fresh and get_tickers not None; q is
\* the call with what the cache, the screener service and get_stock answer
CacheIsCurrent(tbl, sch, clock, q) ==
    /\ ~q.force
    /\ ScreenerCache_is_fresh(tbl, sch, clock, q.name, q.first, q.f1)
    /\ ScreenerCache_get_tickers(tbl, sch, clock, q.name, q.first,
                                 q.f2).value.present

\* _sync_one if an exception of get_stock left the function
_sync_one_enrich_unguarded(tbl, sch, clock, q) ==
    IF CacheIsCurrent(tbl, sch, clock, q)
    THEN Synced("0", 0, 0, << >>, FALSE, tbl)
    ELSE IF q.load # <<"error">> /\ q.failed # {}
    THEN Synced("raised", 1, 1, StrippedTickers(q.load), FALSE, tbl)
    ELSE LoadEnrichStore(tbl, sch, clock, q.name, q.load, q.failed, q.script)

\* _sync_one(cache, screener_name, url, force_refresh)
_sync_one(tbl, sch, clock, q) ==
    IF CacheIsCurrent(tbl, sch, clock, q)
    THEN Synced("0", 0, 0, << >>, FALSE, tbl)
    ELSE LoadEnrichStore(tbl, sch, clock, q.name, q.load, q.failed, q.script)

\* what sqlite answers to the attempts of the store of a sync
SyncScripts == {<<"ok">>, <<"database is locked">>, <<Unable, Unable, Unable>>}

ScreenerRow(name, ticker, at) == Row(name, ticker, Enriched, IsoFormat(at))

\* the screener_stocks table a run starts with: empty, the rows of a sync
\* made today, or the rows of a sync made a day ago, which are stale
ScreenerTables ==
    {{}, {ScreenerRow("k1", "A", 0), ScreenerRow("k1", "C", 0)},
     {ScreenerRow("k1", "A", 0 - TTL_DAYS),
      ScreenerRow("k1", "C", 0 - TTL_DAYS)}}

SyncInit ==
    /\ cache = "screener"
    /\ table \in ScreenerTables
    /\ schema = "ok"
    /\ now = 0
    /\ last = NoCacheCall
    /\ stored = [k \in CacheKeys |-> NoStore]
    /\ client = NoRequest
    /\ batch = NoBatch
    /\ disk = NoDisk
    /\ second = << >>
    /\ source = NoSource
    /\ sync = NoSync
    /\ ScoringIdle
    /\ ResolverIdle
    /\ TxnIdle

SyncOne ==
    /\ cache = "screener"
    /\ sync.calls < MaxSyncCalls
    /\ \E name \in CacheKeys, force \in BOOLEAN, f1 \in ClientFaults,
          f2 \in ClientFaults, load \in ScreenerLoads,
          script \in SyncScripts :
         \E first \in IF RowsOf(table, name) = {}
                      THEN {Row(name, "", NullText, NullStamp)}
                      ELSE RowsOf(table, name),
            failed \in SUBSET {load[i] : i \in DOMAIN load} :
           LET q == [name |-> name, force |-> force, first |-> first,
                     f1 |-> f1, f2 |-> f2, load |-> load,
                     failed |-> failed, script |-> script]
               e == _sync_one(table, schema, now, q)
           IN  /\ failed \subseteq
                     {e.tickers[i] : i \in DOMAIN e.tickers}
               /\ table' = e.table
               /\ sync' = [calls |-> sync.calls + 1, name |-> name,
                           force |-> force, status |-> e.status,
                           requests |-> e.requests, lookups |-> e.lookups,
                           tickers |-> e.tickers, failed |-> failed,
                           loaded |-> e.requests = 1 /\ load # <<"error">>,
                           wrote |-> e.wrote, reads |-> <<f1, f2>>,
                           before |-> table]
    /\ UNCHANGED <<cache, schema, now, last, stored, batch, client, disk,
                   second, source, scoringVars, resolverVars, txnVars>>

SyncNext == SyncOne

SyncSpec == SyncInit /\ [][SyncNext]_vars

-----------------------------------------------------------------------------
(* Properties of the scoring engine. *)

Returned == outcome = "returned"

Present(k) == ~IsNone(facts[k])

AllPresent(K) == \A k \in K : Present(k)

\* the required inputs of the i-th test, as documented; the ninth test
\* (Earnings Stability) requires a non-empty history instead
RequiredInputs ==
    << {"cash", "debt"}, {"liabilities", "equity"}, {"ocf", "capex", "debt"},
       {"income", "equity"}, {"current_assets", "current_liabilities"},
       {"oi", "revenue"}, {"revenue", "assets"}, {"oi"}, {},
       {"income", "equity"} >>

InputMissing(i) == IF i = 9 THEN history = << >>
                   ELSE ~AllPresent(RequiredInputs[i])

\* C1: each of the ten results is NA if and only if a required input of its
\* test is absent; with an input missing a test is never PASS or FAIL, and
\* with all inputs present it is PASS or FAIL.
C1_NAIffInputMissing ==
    Returned =>
        /\ Len(results) = 10
        /\ \A i \in 1..10 :
              /\ results[i].status = "NA" <=> InputMissing(i)
              /\ ~InputMissing(i) => results[i].status \in {"PASS", "FAIL"}

\* a run where one test lacks an input while another has all of its own
C1_Witness ==
    /\ Returned
    /\ Present("cash") /\ ~Present("debt")
    /\ results[1].status = "NA"
    /\ Present("oi") /\ results[8].status = "PASS"

\* the documented formulas, on the unrounded fraction
Fv(k) == facts[k].v

DocCash == Frac(Fv("cash") + OrZero(facts["investments"]), Fv("debt"))

DocDebtToEquity == Frac(Fv("liabilities"), Fv("equity"))

DocFreeCashFlow == Frac(Fv("ocf") - Abs(Fv("capex")), Fv("debt"))

DocReturnOnEquity == Frac(Fv("income"), Fv("equity"))

DocCurrentRatio == Frac(Fv("current_assets"), Fv("current_liabilities"))

DocOperatingMargin == Frac(Fv("oi"), Fv("revenue"))

DocAssetTurnover == Frac(Fv("revenue"), Fv("assets"))

PassExactlyWhen(i, cond) ==
    /\ results[i].status \in {"PASS", "FAIL"}
    /\ results[i].status = "PASS" <=> cond

\* the five tests whose code divides whenever the denominator is not zero
C2_NonZeroDenominatorTests ==
    /\ (AllPresent(RequiredInputs[2]) /\ Fv("equity") # 0)
          => PassExactlyWhen(2, Lt(DocDebtToEquity, 1, 2))
    /\ (AllPresent(RequiredInputs[4]) /\ Fv("equity") # 0)
          => PassExactlyWhen(4, Gt(DocReturnOnEquity, 15, 100))
    /\ (AllPresent(RequiredInputs[5]) /\ Fv("current_liabilities") # 0)
          => PassExactlyWhen(5, Gt(DocCurrentRatio, 3, 2))
    /\ (AllPresent(RequiredInputs[6]) /\ Fv("revenue") # 0)
          => PassExactlyWhen(6, Gt(DocOperatingMargin, 12, 100))
    /\ (AllPresent(RequiredInputs[7]) /\ Fv("assets") # 0)
          => PassExactlyWhen(7, Gt(DocAssetTurnover, 1, 2))

\* C2 as stated: with all inputs present the status is PASS exactly when the
\* documented inequality holds on the unrounded formula, for a denominator of
\* either sign.
C2_Original ==
    Returned =>
        /\ C2_NonZeroDenominatorTests
        /\ (AllPresent(RequiredInputs[1]) /\ Fv("debt") # 0)
              => PassExactlyWhen(1, Gt(DocCash, 1, 1))
        /\ (AllPresent(RequiredInputs[3]) /\ Fv("debt") # 0)
              => PassExactlyWhen(3, Gt(DocFreeCashFlow, 1, 4))

\* C2 (amended): as C2, except that Cash Test and Free Cash Flow follow the
\* documented inequality only for positive debt; for negative debt they are
\* PASS with the infinite sentinel whatever the numerator.  The status never
\* depends on the rounded value that is displayed.
C2_PassIffInequality ==
    Returned =>
        /\ C2_NonZeroDenominatorTests
        /\ (AllPresent(RequiredInputs[1]) /\ Fv("debt") > 0)
              => PassExactlyWhen(1, Gt(DocCash, 1, 1))
        /\ (AllPresent(RequiredInputs[3]) /\ Fv("debt") > 0)
              => PassExactlyWhen(3, Gt(DocFreeCashFlow, 1, 4))
        /\ (AllPresent(RequiredInputs[1]) /\ Fv("debt") < 0)
              => results[1].status = "PASS" /\ results[1].value.k = "inf"
        /\ (AllPresent(RequiredInputs[3]) /\ Fv("debt") < 0)
              => results[3].status = "PASS" /\ results[3].value.k = "inf"

\* a Cash Test of 1001/1000: PASS, although the displayed value is 1.0
C2_Witness ==
    /\ Returned
    /\ AllPresent(RequiredInputs[1]) /\ Fv("debt") > 0
    /\ results[1].status = "PASS"
    /\ results[1].value = [k |-> "ratio", v |-> 100]

IsInfPass(i) == results[i].status = "PASS" /\ results[i].value.k = "inf"

IsZeroFail(i, kind) ==
    results[i].status = "FAIL" /\ results[i].value = [k |-> kind, v |-> 0]

\* C3 as stated: with a zero denominator and all inputs present, each of the
\* seven lower-bound tests yields the infinite sentinel and PASS.
C3_Original ==
    Returned =>
        /\ (AllPresent(RequiredInputs[1]) /\ Fv("debt") = 0) => IsInfPass(1)
        /\ (AllPresent(RequiredInputs[3]) /\ Fv("debt") = 0) => IsInfPass(3)
        /\ (AllPresent(RequiredInputs[4]) /\ Fv("equity") = 0) => IsInfPass(4)
        /\ (AllPresent(RequiredInputs[5]) /\ Fv("current_liabilities") = 0)
              => IsInfPass(5)
        /\ (AllPresent(RequiredInputs[6]) /\ Fv("revenue") = 0) => IsInfPass(6)
        /\ (AllPresent(RequiredInputs[7]) /\ Fv("assets") = 0) => IsInfPass(7)
        /\ (AllPresent(RequiredInputs[10]) /\ Fv("equity") = 0)
              => IsInfPass(10)

\* C3 (amended): evaluate_all never raises a division error; with a zero
\* denominator and all inputs present, Cash Test, Free Cash Flow and Current
\* Ratio yield the infinite sentinel and PASS, while Return on Equity,
\* Operating Margin, Asset Turnover and Capital Allocation yield the value 0
\* and FAIL.
C3_ZeroDenominator ==
    /\ outcome # "raised"
    /\ Returned =>
        /\ (AllPresent(RequiredInputs[1]) /\ Fv("debt") = 0) => IsInfPass(1)
        /\ (AllPresent(RequiredInputs[3]) /\ Fv("debt") = 0) => IsInfPass(3)
        /\ (AllPresent(RequiredInputs[5]) /\ Fv("current_liabilities") = 0)
              => IsInfPass(5)
        /\ (AllPresent(RequiredInputs[4]) /\ Fv("equity") = 0)
              => IsZeroFail(4, "pct")
        /\ (AllPresent(RequiredInputs[6]) /\ Fv("revenue") = 0)
              => IsZeroFail(6, "pct")
        /\ (AllPresent(RequiredInputs[7]) /\ Fv("assets") = 0)
              => IsZeroFail(7, "ratio")
        /\ (AllPresent(RequiredInputs[10]) /\ Fv("equity") = 0)
              => IsZeroFail(10, "pct")

\* zero revenue with operating income and assets present: both tests that
\* divide by it or by zero assets were evaluated
C3_Witness ==
    /\ Returned
    /\ AllPresent(RequiredInputs[6]) /\ Fv("revenue") = 0 /\ Fv("oi") > 0
    /\ results[6].status = "FAIL"
    /\ AllPresent(RequiredInputs[7]) /\ Fv("assets") = 0
    /\ results[7].status = "FAIL"

-----------------------------------------------------------------------------
(* Properties of the fact resolver. *)

\* the entries of a document, with where they are
EntriesAt(n, t) ==
    LET units == companyfacts.ns[n].tags[t].units
    IN  UNION {{[ns |-> n, tag |-> t, unit |-> units[g].name,
                 e |-> units[g].entries[i]] :
                i \in DOMAIN units[g].entries} : g \in DOMAIN units}

DocEntries ==
    IF companyfacts.shape # "facts" THEN {}
    ELSE UNION {EntriesAt(n, t) : n \in Namespaces, t \in Tags}

HistCalled == call.op = "extract_historical_facts"

DistinctYears ==
    \A i, j \in DOMAIN call.hist :
        i # j => \A x, y \in DocEntries :
                    (x.e.val = call.hist[i] /\ y.e.val = call.hist[j])
                        => x.e.fy # y.e.fy

\* C4 as stated: for every limit >= 0 the list returned by
\* extract_historical_facts has at most limit values, no two of them from
\* entries of the same fiscal year.
C4_Original ==
    HistCalled => (Len(call.hist) <= call.limit /\ DistinctYears)

\* what the code does guarantee: at most max(limit, 1) values, of distinct
\* fiscal years (the length is tested only after a value was appended)
C4_AtMostLimitFromOne ==
    HistCalled =>
        /\ Len(call.hist) <= (IF call.limit < 1 THEN 1 ELSE call.limit)
        /\ DistinctYears

FactCalled == call.op = "extract_fact"

TagsOf(tags) == {tags[i] : i \in DOMAIN tags}

\* us-gaap contains at least one of the candidate tags
UsGaapHasCandidate ==
    /\ companyfacts.shape = "facts"
    /\ \E t \in TagsOf(call.tags) : companyfacts.ns["us-gaap"].tags[t].present

\* some candidate tag of namespace n has a 10-K entry in some unit group
HasTenKEntry(n) ==
    \E x \in DocEntries :
        x.ns = n /\ x.tag \in TagsOf(call.tags) /\ x.e.form = "10-K"

\* the returned value and provenance are those of one entry of namespace n
ResultFrom(n) ==
    /\ call.value.p
    /\ \E x \in DocEntries :
          /\ x.ns = n /\ x.tag \in TagsOf(call.tags)
          /\ call.value = Some(x.e.val)
          /\ call.prov = [present |-> TRUE, tag |-> x.tag,
                          period_end |-> x.e.end, fiscal_year |-> x.e.fy,
                          unit |-> x.unit, form |-> x.e.form]

\* C10 as stated: if us-gaap contains a candidate tag, the result comes from
\* us-gaap or is absent; dei is used only when us-gaap has no candidate tag.
C10_Original ==
    (FactCalled /\ UsGaapHasCandidate)
        => (IsNone(call.value) \/ ResultFrom("us-gaap"))

\* C10 (amended): the result comes from one entry of one namespace, and the
\* first namespace in which a candidate tag has a 10-K entry wins: us-gaap
\* whenever one of its candidate tags has a 10-K entry, dei only when none
\* has (us-gaap lacks the candidate tags, or holds them without a 10-K entry).
C10_FirstNamespaceWithTenK ==
    FactCalled =>
        /\ HasTenKEntry("us-gaap") => ResultFrom("us-gaap")
        /\ (call.value.p /\ ~HasTenKEntry("us-gaap")) => ResultFrom("dei")
        /\ call.value.p <=> call.prov.present

\* us-gaap holds a candidate tag without a 10-K entry and dei supplies the value
C10_Witness ==
    /\ FactCalled
    /\ UsGaapHasCandidate
    /\ ~HasTenKEntry("us-gaap")
    /\ ResultFrom("dei")


\* the namespace the returned value was taken from
WinningNs ==
    CHOOSE n \in Namespaces :
        \E x \in DocEntries : x.ns = n /\ call.value = Some(x.e.val)

\* the first candidate, in the caller's order, whose flag is TRUE
FirstCandidate(flags) == call.tags[FirstTrue(flags)]

PresentInWinningNs(t) == companyfacts.ns[WinningNs].tags[t].present

TenKInWinningNs(t) ==
    \E x \in DocEntries :
        x.ns = WinningNs /\ x.tag = t /\ x.e.form = "10-K"

\* C11 as stated: within the winning namespace the first candidate tag that
\* is present wins: provenance.tag is the first tag of the candidate list
\* that exists in that namespace.
C11_Original ==
    (FactCalled /\ call.value.p) =>
        call.prov.tag =
            FirstCandidate([i \in DOMAIN call.tags |->
                               PresentInWinningNs(call.tags[i])])

\* C11 (amended): within the winning namespace the candidates are tried in the
\* caller's order and the first one that has a 10-K entry wins; a candidate
\* that is present without a 10-K entry is passed over like a missing one.
C11_FirstTagWithTenK ==
    (FactCalled /\ call.value.p) =>
        call.prov.tag =
            FirstCandidate([i \in DOMAIN call.tags |->
                               TenKInWinningNs(call.tags[i])])

\* the first candidate is present without a 10-K entry and the second
\* candidate, of the same namespace, supplies the value
C11_Witness ==
    /\ FactCalled
    /\ call.value.p
    /\ Len(call.tags) = 2
    /\ PresentInWinningNs(call.tags[1])
    /\ ~TenKInWinningNs(call.tags[1])
    /\ call.prov.tag = call.tags[2]

\* the unit groups of the tag the returned value was taken from
WinningUnits == companyfacts.ns[WinningNs].tags[call.prov.tag].units

GroupHasTenK(g) == \E i \in DOMAIN g.entries : g.entries[i].form = "10-K"

UsdHasTenK(units) ==
    \E g \in DOMAIN units : units[g].name = "USD" /\ GroupHasTenK(units[g])

C12_WitnessStoredOrder ==
    /\ FactCalled
    /\ call.value.p
    /\ Len(WinningUnits) = 2
    /\ ~UsdHasTenK(WinningUnits)
    /\ ~GroupHasTenK(WinningUnits[1])
    /\ call.prov.unit = WinningUnits[2].name

\* the entries of the unit group the returned value was taken from
WinningGroupEntries ==
    {x \in DocEntries : /\ x.ns = WinningNs
                        /\ x.tag = call.prov.tag
                        /\ x.unit = call.prov.unit}

\* C13: the entry returned by extract_fact has form 10-K and the greatest
\* period end among the 10-K entries of the unit group it was taken from; an
\* entry of another form never supplies the value, even when it is more
\* recent than every 10-K entry.
C13_MostRecentTenK ==
    (FactCalled /\ call.value.p) =>
        /\ call.prov.form = "10-K"
        /\ \E x \in WinningGroupEntries :
              /\ call.value = Some(x.e.val)
              /\ x.e.form = "10-K"
              /\ x.e.end = call.prov.period_end
              /\ \A y \in WinningGroupEntries :
                    y.e.form = "10-K" => y.e.end <= x.e.end

\* the unit group holds an entry of another form that is more recent than
\* the 10-K entry that was returned
C13_Witness ==
    /\ FactCalled
    /\ call.value.p
    /\ \E y \in WinningGroupEntries :
          y.e.form # "10-K" /\ y.e.end > call.prov.period_end

\* every candidate is exhausted: no candidate tag of us-gaap or dei has a 10-K
\* entry in any unit group
Exhausted ==
    ~\E x \in DocEntries : x.tag \in TagsOf(call.tags) /\ x.e.form = "10-K"

\* C14 as stated: extract_fact returns (absent, absent) exactly when every
\* candidate is exhausted, and otherwise a present value together with a
\* present provenance, for every document, loosely formed ones included.
C14_Original ==
    FactCalled =>
        /\ Exhausted <=> (IsNone(call.value) /\ ~call.prov.present)
        /\ ~Exhausted => (call.value.p /\ call.prov.present)

\* the provenance is absent exactly on exhaustion, and then so is the value
C14_ProvenanceIffNotExhausted ==
    FactCalled =>
        /\ Exhausted <=> ~call.prov.present
        /\ Exhausted => IsNone(call.value)

-----------------------------------------------------------------------------
(* Properties of the caches. *)

StoreCall == last.op = "store"

GetCall == last.op = "get"

\* no attempt of the last call met an sqlite error of the environment
Unhindered == \A i \in DOMAIN last.faults : last.faults[i] = "ok"

\* what the caller receives from get: the payload, or None
PyValue(r) == IF r.present THEN r.v ELSE PyNone

\* the last call is a get of a key whose latest store call returned normally
\* and is younger than the freshness window
GetWithinWindow ==
    /\ GetCall
    /\ cache \in {"sec", "price"}
    /\ Unhindered
    /\ ~last.damaged
    /\ stored[last.key].called
    /\ stored[last.key].status = "returned"
    /\ last.at - stored[last.key].at < last.days

\* C5 as stated: a get after a store of the same key, inside the freshness
\* window and with no other store of that key in between, returns exactly
\* the payload that was handed to store, whatever that payload is.
C5_Original ==
    GetWithinWindow =>
        /\ last.status = "returned"
        /\ PyValue(last.value) = stored[last.key].payload

\* the round trip of the payloads that were written: the get returns the
\* payload of the store that wrote the row
C5_RoundTripWhenWritten ==
    (GetWithinWindow /\ stored[last.key].wrote) =>
        /\ last.status = "returned"
        /\ last.value = Payload(stored[last.key].payload)

\* the age, at the time of the last call, of a row
Age(r) == last.at - fromisoformat(r.ts).t

\* the payload a row holds, as get decodes it
Decoded(r) ==
    IF cache = "sec" THEN json_loads(r.data.text).value
    ELSE IF cache = "price" THEN read_json(r.data.text).value
    ELSE PyNone

\* the last call was a get that returned what a row younger than maxAge
\* holds, or absent if the rows of the key are of age maxAge or more
FreshnessObserved ==
    GetCall =>
        /\ last.value.present =>
             \E r \in RowsOf(table, last.key) :
                /\ Age(r) < last.days
                /\ cache # "screener" => last.value = Payload(Decoded(r))
        /\ (\A r \in RowsOf(table, last.key) : Age(r) >= last.days)
               => ~last.value.present
        /\ cache = "screener" /\ last.value.present =>
               last.value.tickers =
                   {r.ticker : r \in RowsOf(table, last.key)}

\* C6: a get returns the payload only when now - stored_at < maxAge, strictly,
\* and absent when the record's age is maxAge or more; no get changes the
\* table, so a stale record is still present afterwards with its payload and
\* its stored_at.
C6_StrictFreshnessGetWritesNothing ==
    [][/\ FreshnessObserved'
       /\ last'.op = "get" /\ last'.calls # last.calls => table' = table]_vars

\* a get found a record of age exactly maxAge: it returned absent and the
\* record is still in the table with the payload and timestamp of its store
C6_Witness ==
    /\ GetCall
    /\ Unhindered
    /\ ~last.value.present
    /\ stored[last.key].wrote
    /\ \E r \in RowsOf(table, last.key) :
          /\ Age(r) = last.days
          /\ r.ts = IsoFormat(stored[last.key].at)
          /\ cache = "sec" =>
                r.data = Text(json_dumps(stored[last.key].payload))

\* C7 as stated: a get on a record that is structurally corrupt (payload or
\* timestamp that does not parse or is null, incompatible schema) returns
\* absent and never raises, for the three caches.
C7_Original ==
    (GetCall /\ last.damaged /\ Unhindered) =>
        /\ last.status = "returned"
        /\ ~last.value.present

\* on damage of the stored columns alone (the table's layout is intact)
\* every get returns absent
C7_DamagedColumnsAreAMiss ==
    (GetCall /\ last.damaged /\ Unhindered /\ schema = "ok") =>
        /\ last.status = "returned"
        /\ ~last.value.present

\* the number of attempts of the last call that storage rejected
Rejected ==
    Cardinality({i \in 1..last.attempts : last.faults[i] # "ok"})

\* C8 as stated: a write that storage rejects is attempted at most 3 times
\* with a pause between the attempts, no attempt follows a successful one,
\* and if all 3 attempts are rejected the failure is surfaced: store never
\* returns normally while the record was not written.
C8_Original ==
    (StoreCall /\ last.attempts >= 1 /\ schema = "ok") =>
        /\ last.attempts <= MaxAttempts
        /\ last.wrote => Rejected = last.attempts - 1
        /\ last.status = "returned" => last.wrote

\* what the retry loops do: at most 3 attempts, none after a success
C8_AtMostThreeAttempts ==
    StoreCall =>
        /\ last.attempts <= MaxAttempts
        /\ last.wrote => Rejected = last.attempts - 1


-----------------------------------------------------------------------------
(* Properties of concurrent stores. *)

\* the rows the latest committed store of a key wrote, {} if there is none
\* (stored[k] is the number of that store call)
CommittedRows(k) == IF stored[k] = 0 THEN {} ELSE issued[stored[k]].rows

OneRecordPerKey ==
    \A r1 \in table, r2 \in table :
        r1.key = r2.key /\ r1.ticker = r2.ticker => r1 = r2

TableIsLastCommitted ==
    \A k \in CacheKeys :
        /\ RowsOf(table, k) = CommittedRows(k)
        /\ stored[k] # 0 => /\ issued[stored[k]].name = k
                            /\ issued[stored[k]].state = "committed"

ReadersSeeWholeStores ==
    last.op = "read" =>
        last.rows = IF last.after = 0 THEN {} ELSE issued[last.after].rows

\* the step is a store of p raising inside or before its transaction
StoreFails(p) ==
    /\ txn[p].pc \in {"connected", "writing"}
    /\ txn'[p].outcome = "raised"

\* C9: after any sequence of store operations, successful or failed and
\* interleaved from several processes, the table holds at most one record per
\* key and it is the complete payload and timestamp of the last committed
\* store call; no reader sees a partly written record or a screener whose
\* rows are deleted and only partly inserted; a store that fails midway
\* leaves the previous rows intact.
C9_AtomicReplace ==
    [][/\ OneRecordPerKey'
       /\ TableIsLastCommitted'
       /\ ReadersSeeWholeStores'
       /\ \A p \in Procs :
             StoreFails(p) =>
                /\ table' = table
                /\ txn[p].pc = "writing" => table' = txn[p].before]_vars

\* a screener store has failed midway, on its second INSERT, after its DELETE
\* of the rows an earlier store committed; while its transaction was open
\* another process read the screener and saw the rows of the earlier store,
\* which are still the rows of the table
C9_Witness ==
    /\ cache = "screener"
    /\ \E i \in DOMAIN issued, j \in DOMAIN issued :
          /\ i < j
          /\ issued[i].name = issued[j].name
          /\ issued[i].state = "committed"
          /\ issued[i].rows # {}
          /\ issued[j].state = "failed"
          /\ last.op = "read"
          /\ last.by # issued[j].by
          /\ last.key = issued[j].name
          /\ j \in last.during
          /\ last.rows = issued[i].rows
          /\ RowsOf(table, issued[i].name) = issued[i].rows

-----------------------------------------------------------------------------
(* Properties of the batch fetch. *)

BatchOver == batch.op = "batch_fetch_prices" /\ batch.status # "running"

\* the fetch of position i succeeded: get_daily_prices returned a frame
FetchSucceeded(i) ==
    batch.done[i].status = "returned" /\ batch.done[i].df # PyNone

\* the fetch of position i failed, by an error or an empty response
FetchFailed(i) ==
    batch.done[i] \notin {NotRun, InFlight} /\ ~FetchSucceeded(i)

\* C15: in batch_fetch_prices a ticker whose fetch fails (provider error,
\* empty response, cache read or write error) is simply missing from the
\* returned mapping: the call returns normally and every ticker of the list
\* whose fetch succeeds is in the mapping with its own data.
C15_Original ==
    BatchOver =>
        /\ batch.status = "returned"
        /\ \A i \in DOMAIN batch.items : batch.done[i] # NotRun
        /\ \A i \in DOMAIN batch.items :
              FetchSucceeded(i) =>
                  \E r \in batch.results :
                     /\ r.ticker = batch.items[i]
                     /\ \E j \in DOMAIN batch.items :
                           /\ batch.items[j] = r.ticker
                           /\ batch.done[j].df = r.df
        /\ \A r \in batch.results :
              \E i \in DOMAIN batch.items :
                 batch.items[i] = r.ticker /\ FetchSucceeded(i)

\* what does hold: the call returns normally unless a cache read raised, and
\* then the mapping is as claimed
C15_AbortsOnlyOnCacheRead ==
    BatchOver =>
        /\ batch.status = "raised" <=>
              \E i \in DOMAIN batch.items :
                 batch.done[i].why = "cache read error"
        /\ batch.status = "returned" =>
              /\ \A i \in DOMAIN batch.items :
                    FetchSucceeded(i) =>
                        \E r \in batch.results : r.ticker = batch.items[i]
              /\ \A r \in batch.results :
                    \E i \in DOMAIN batch.items :
                       /\ batch.items[i] = r.ticker
                       /\ batch.done[i].df = r.df

-----------------------------------------------------------------------------
(* Properties of the batch analysis. *)

MainOver == batch.op = "main" /\ batch.status # "running"

\* C16: in the batch mode of analyze.py an error in the pipeline of one
\* ticker never aborts the batch: run_analysis is still invoked for every
\* later ticker of the list.
C16_Original ==
    MainOver => \A i \in DOMAIN batch.items : batch.done[i] # "pending"

\* what does hold: a ticker that is blank, not resolvable or without filings
\* is skipped and the loop goes on; the batch stops at the first ticker whose
\* history has a 10-K entry without 'val' among its first ten
C16_StopsAtFirstRaise ==
    MainOver =>
        \A i \in DOMAIN batch.items :
           /\ batch.done[i] = "pending" <=>
                 \E j \in 1..(i - 1) : batch.done[j] = "raised"
           /\ batch.done[i] = "raised" <=>
                 /\ batch.items[i].ticker = "T"
                 /\ batch.items[i].facts_data.shape = "facts"
                 /\ \E e \in 1..Len(batch.items[i].facts_data.income) :
                       batch.items[i].facts_data.income[e].val = NoVal
                 /\ \A j \in 1..(i - 1) : batch.done[j] # "raised"

-----------------------------------------------------------------------------
(* Properties of get_companyfacts. *)

ClientCalled == client.calls > 0

\* the call ended on a 404: absent, no sleep after it, nothing stored
EndsOnNotFound ==
    client.answer = "404" =>
        /\ client.value = PyNone
        /\ Len(client.sleeps) = client.requests - 1
        /\ ~client.wrote
        /\ table = client.before

\* the provider answers 404 to the first request: one request, no backoff
OneRequestOnNotFound ==
    client.first = "404" =>
        /\ client.answer = "404"
        /\ client.requests = 1
        /\ client.sleeps = << >>

\* the call was answered from the cache: it was not forced and value is the
\* fresh, non-empty document of the row of its cik
ServedFromCache ==
    /\ ~client.force
    /\ client.requests = 0
    /\ \E r \in RowsOf(client.before, client.cik) :
          /\ Fresh(r.ts, now, 7)
          /\ json_loads(r.data.text).ok
          /\ client.value = json_loads(r.data.text).value
          /\ ~Falsy(client.value)

\* C17 as stated: on a 404 get_companyfacts returns absent after exactly one
\* request, without retry or backoff, and stores nothing; a later call for
\* the identifier issues a new request.
C17_Original ==
    ClientCalled =>
        /\ EndsOnNotFound
        /\ OneRequestOnNotFound
        /\ client.cik \in client.notfound => client.requests >= 1

\* C17: on a 404 get_companyfacts returns absent after exactly one request,
\* without retry or backoff, and stores nothing: the cache table is
\* unchanged.  A later call for the identifier issues a new request, unless
\* it is not forced and the cache holds a fresh document for the identifier
\* (one that the call answered with 404 had bypassed by force_refresh).
C17_NotFoundIsNotCached ==
    ClientCalled =>
        /\ EndsOnNotFound
        /\ OneRequestOnNotFound
        /\ client.cik \in client.notfound =>
              client.requests >= 1 \/ ServedFromCache

C17_Witness ==
    /\ client.calls = 2
    /\ client.cik \in client.notfound
    /\ client.first = "404"
    /\ client.requests = 1
    /\ table = client.before

-----------------------------------------------------------------------------
(* Properties of Interest Coverage, Earnings Stability and Capital
   Allocation. *)

\* the value rendered as the text 'No Interest'
NoInterest == [k |-> "text", v |-> 0]

InterestAbsentOrZero == ~Present("interest") \/ Fv("interest") = 0

\* oi / |interest| > 3.0, for a non-zero interest
CoverageAboveThree == Fv("oi") > 3 * Abs(Fv("interest"))

\* C18: Interest Coverage with operating income present: if interest expense
\* is absent or zero the status is PASS and the value is the text
\* 'No Interest'; if interest is present and non-zero the status is PASS
\* exactly when oi / |interest| > 3.0 and FAIL otherwise.
C18_InterestCoverage ==
    (Returned /\ Present("oi")) =>
        IF InterestAbsentOrZero
        THEN results[8].status = "PASS" /\ results[8].value = NoInterest
        ELSE /\ PassExactlyWhen(8, CoverageAboveThree)
             /\ results[8].value.k = "ratio"

\* operating income of exactly three times the interest expense: FAIL
C18_WitnessExactlyThree ==
    /\ Returned
    /\ Present("oi") /\ Present("interest")
    /\ Fv("oi") = 3 * Abs(Fv("interest")) /\ Fv("oi") > 0
    /\ results[8].status = "FAIL"
    /\ results[8].value = [k |-> "ratio", v |-> 300]

\* a negative interest expense covered more than three times
C18_Witness ==
    /\ Returned
    /\ Present("oi") /\ Present("interest")
    /\ Fv("interest") < 0
    /\ CoverageAboveThree
    /\ results[8].status = "PASS"

\* the strictly positive values among the first ten of the history
PositivesOfFirstTen ==
    Cardinality({i \in DOMAIN history : i <= 10 /\ history[i] > 0})

\* C19: Earnings Stability is NA exactly when the NetIncomeLoss history is
\* empty; otherwise it is PASS exactly when at least 8 of the first 10 values
\* are strictly positive, values after the tenth never influence the result,
\* and the value is rendered as '<number of positives>/10'.
C19_EarningsStability ==
    Returned =>
        /\ results[9].status = "NA" <=> history = << >>
        /\ history # << >> =>
              /\ PassExactlyWhen(9, PositivesOfFirstTen >= 8)
              /\ results[9].value = [k |-> "count", v |-> PositivesOfFirstTen]

\* the history [5,-3,2,4,1,-1,3,6,2,1] gives '8/10', PASS
C19_Witness ==
    /\ Returned
    /\ history = <<5, -3, 2, 4, 1, -1, 3, 6, 2, 1>>
    /\ results[9].status = "PASS"
    /\ results[9].value = [k |-> "count", v |-> 8]

\* seven positives among the first ten and a positive eleventh value: FAIL
C19_WitnessEleventh ==
    /\ Returned
    /\ Len(history) > 10
    /\ history[11] > 0
    /\ results[9].status = "FAIL"
    /\ results[9].value = [k |-> "count", v |-> 7]

\* C20: the Capital Allocation result equals the Return on Equity result in
\* status, value, target and description; only the name differs, and the
\* Return on Equity result of the output keeps its own name.
C20_CapitalAllocationIsRelabelledROE ==
    Returned =>
        /\ results[10].status = results[4].status
        /\ results[10].value = results[4].value
        /\ results[10].target = results[4].target
        /\ results[10].description = results[4].description
        /\ results[10].name = "Capital Allocation"
        /\ results[4].name = "Return on Equity"
        /\ results[4] = return_on_equity(facts)

C20_Witness ==
    /\ Returned
    /\ Present("income") /\ Present("equity")
    /\ results[4].status = "PASS"
    /\ results[10].status = "PASS"
    /\ results[10].value.k = "pct"

-----------------------------------------------------------------------------
(* Properties of the construction of a cache object. *)

DiskNow == [dir |-> disk.dir, exists |-> disk.exists,
            columns |-> disk.columns, rows |-> table]

\* the columns get and get_tickers select
ReadColumns == RequiredColumns(cache) \ {"cik", "screener_name"}

\* every record is as it was and is read through the columns get selects
RecordsKept ==
    /\ table' = table
    /\ disk.exists =>
          Select(DiskNow', ReadColumns) = Select(DiskNow, ReadColumns)
    /\ Select(DiskNow', ReadColumns).ok

\* C21: constructing a cache object creates the container directory and the
\* table when they are absent; constructing it again on an existing store
\* succeeds and leaves every existing record unchanged, also on an older
\* table that lacks the optional columns: the old rows remain readable with
\* the same payload.
C21_ConstructIdempotent ==
    [][Construct =>
          /\ disk'.dir /\ disk'.exists
          /\ disk'.columns = RequiredColumns(cache) \cup OptionalColumns(cache)
          /\ disk.exists => RequiredColumns(cache) \subseteq disk.columns
          /\ RecordsKept
          /\ disk.opened > 0 =>
                /\ disk'.dir = disk.dir /\ disk'.exists = disk.exists
                /\ disk'.columns = disk.columns]_vars

\* a price cache opened twice on an older table that holds a record
C21_Witness ==
    /\ cache = "price"
    /\ disk.was = "older table"
    /\ disk.opened = 2
    /\ last.calls = 0
    /\ table # {}
    /\ disk.columns = RequiredColumns("price") \cup OptionalColumns("price")

-----------------------------------------------------------------------------
(* Properties of the grouping of the batch fetch. *)

BatchCall == batch.op = "batch_fetch_prices"

Begun(i) == batch.done[i] # NotRun

Ended_(i) == batch.done[i] \notin {NotRun, InFlight}

\* at most `workers` fetches are in flight
BoundedInFlight ==
    Cardinality({i \in DOMAIN batch.items : batch.done[i] = InFlight})
        <= batch.workers

\* no fetch of a group begins before every fetch of the groups before it
\* has ended; the groups are the consecutive runs of `workers` positions
BarrierPerGroup ==
    \A i, j \in DOMAIN batch.items :
       ((i - 1) \div batch.workers < (j - 1) \div batch.workers /\ Begun(j))
           => Ended_(i)

\* the mapping built from the fetch results in the order of the input
RECURSIVE MappingOf(_, _, _)
MappingOf(items, done, n) ==
    IF n = 0 THEN {}
    ELSE IF done[n].df # PyNone
    THEN {r \in MappingOf(items, done, n - 1) : r.ticker # items[n]}
         \cup {[ticker |-> items[n], df |-> done[n].df]}
    ELSE MappingOf(items, done, n - 1)

\* C22: batch_fetch_prices submits tickers in consecutive groups of
\* `workers` and waits for every fetch of a group before submitting the next
\* group: never more than `workers` fetches in flight, every ticker of the
\* input fetched exactly once per occurrence, and the returned mapping
\* depends only on the per-ticker fetch results.
C22_Original ==
    BatchCall =>
        /\ BoundedInFlight
        /\ BarrierPerGroup
        /\ \A i \in DOMAIN batch.items : batch.fetches[i] <= 1
        /\ batch.status # "running" =>
              /\ \A i \in DOMAIN batch.items : batch.fetches[i] = 1
              /\ batch.results =
                    MappingOf(batch.items, batch.done, Len(batch.items))

\* what does hold: the grouping and the bound always; every ticker fetched
\* once and the mapping built from the results when the call returns; the
\* groups after the one in which a cache read raised are never fetched
C22_BarrierUnlessRaised ==
    BatchCall =>
        /\ BoundedInFlight
        /\ BarrierPerGroup
        /\ \A i \in DOMAIN batch.items : batch.fetches[i] <= 1
        /\ batch.status = "returned" =>
              /\ \A i \in DOMAIN batch.items : batch.fetches[i] = 1
              /\ batch.results =
                    MappingOf(batch.items, batch.done, Len(batch.items))
        /\ batch.status = "raised" =>
              \A i \in DOMAIN batch.items :
                 batch.fetches[i] = 0 <=> i > batch.at + batch.workers

-----------------------------------------------------------------------------
(* Properties of the request loop of get_companyfacts. *)

Requested == client.calls > 0 /\ client.requests > 0

\* the pauses made: one after every attempt that did not end the call
PausesAfterFailedAttempts ==
    client.sleeps =
        SubSeq(Delays, 1,
               IF client.value # PyNone \/ client.answer = "404"
               THEN client.requests - 1 ELSE client.requests)

\* C23: get_companyfacts always terminates: when the cache does not supply
\* the document it issues at most 3 requests, pausing 2 s, 4 s and 8 s after
\* the first, second and third failed attempt; it stops at the first
\* response with status 200 and returns that document, and returns absent
\* when none of the attempts returned 200.
C23_Original ==
    Requested =>
        /\ client.requests <= 3
        /\ PausesAfterFailedAttempts
        /\ client.ok200 > 0 =>
              /\ client.requests = client.ok200
              /\ client.value = ProviderDoc(client.cik)
        /\ client.ok200 = 0 => client.value = PyNone

\* what does hold: at most 3 requests with the pauses 2, 4, 8; the call
\* stops at the first 200 whose document the cache accepted, and passes over
\* a 200 whose cache.store raised like a failed attempt
C23_BoundedRequests ==
    Requested =>
        /\ client.requests <= 3
        /\ PausesAfterFailedAttempts
        /\ client.value # PyNone =>
              /\ client.value = ProviderDoc(client.cik)
              /\ client.ok200 > 0
              /\ client.storefault = "ok"
              /\ client.requests = client.ok200
        /\ (client.ok200 > 0 /\ client.storefault = "ok") =>
              client.value = ProviderDoc(client.cik)

C28_WriteFailureIsRetried ==
    (Requested /\ client.ok200 > 0 /\ client.storefault # "ok") =>
        /\ client.value = PyNone
        /\ (client.requests > client.ok200 \/ client.requests = Len(Delays))
        /\ table = client.before

-----------------------------------------------------------------------------
(* Properties of extract_historical_facts. *)

\* the unit groups of the tag asked for, namespace by namespace in the
\* order us-gaap, dei, each namespace's groups in the dict's order
GroupsInOrder ==
    LET OfNs(n) ==
            IF companyfacts.shape = "facts" /\ companyfacts.ns[n].present
               /\ companyfacts.ns[n].tags[call.tag].present
            THEN companyfacts.ns[n].tags[call.tag].units
            ELSE << >>
    IN  OfNs("us-gaap") \o OfNs("dei")

TenKsOf(group) == {group.entries[i] : i \in {j \in DOMAIN group.entries :
                                               group.entries[j].form = "10-K"}}

\* the 10-K entries of the first group that has any
FirstTenKGroup ==
    LET gi == FirstTrue([i \in DOMAIN GroupsInOrder |->
                            TenKsOf(GroupsInOrder[i]) # {}])
    IN  IF gi = 0 THEN {} ELSE TenKsOf(GroupsInOrder[gi])

\* the entry a returned value was reported by
EntryOfValue(v) == CHOOSE e \in FirstTenKGroup : e.val = v

AtLeastOne(limit) == IF limit < 1 THEN 1 ELSE limit

\* C24: extract_historical_facts returns only values of 10-K entries,
\* ordered by period end descending, all from the first unit group of the
\* first namespace (us-gaap, then dei) that yields a value; no later group
\* or namespace contributes; for each fiscal year the value kept is that of
\* the entry with the latest period end among the 10-K entries of that year.
C24_HistoryFromOneGroup ==
    HistCalled =>
        LET h == call.hist
            G == FirstTenKGroup
            E(j) == EntryOfValue(h[j])
        IN  /\ (h = << >>) <=> (G = {})
            /\ \A j \in DOMAIN h : \E e \in G : e.val = h[j]
            /\ \A j, k \in DOMAIN h :
                  j < k => E(j).end >= E(k).end /\ E(j).fy # E(k).fy
            /\ \A j \in DOMAIN h :
                  \A e \in G : e.fy = E(j).fy => e.end <= E(j).end
            /\ Len(h) <= AtLeastOne(call.limit)
            /\ Len(h) < AtLeastOne(call.limit) =>
                  \A e \in G : \E j \in DOMAIN h : E(j).fy = e.fy

\* a later group also holds 10-K entries and contributes nothing
C24_Witness ==
    /\ HistCalled
    /\ Len(call.hist) = 1
    /\ call.limit = 10
    /\ \E i, j \in DOMAIN GroupsInOrder :
          i < j /\ TenKsOf(GroupsInOrder[i]) # {}
                /\ TenKsOf(GroupsInOrder[j]) # {}

\* two 10-K entries of one fiscal year in the group: the later one is kept
C24_WitnessSameYear ==
    /\ HistCalled
    /\ Len(call.hist) = 1
    /\ call.limit = 10
    /\ Cardinality(FirstTenKGroup) = 2

-----------------------------------------------------------------------------
(* Properties of evaluate_all as a whole. *)

TestNames ==
    << "Cash Test", "Debt-to-Equity", "Free Cash Flow Test",
       "Return on Equity", "Current Ratio", "Operating Margin",
       "Asset Turnover", "Interest Coverage", "Earnings Stability",
       "Capital Allocation" >>

\* the facts each test reads
OwnInputs ==
    << {"cash", "investments", "debt"}, {"liabilities", "equity"},
       {"ocf", "capex", "debt"}, {"income", "equity"},
       {"current_assets", "current_liabilities"}, {"oi", "revenue"},
       {"revenue", "assets"}, {"oi", "interest"}, {},
       {"income", "equity"} >>

\* the mapping with every fact outside K absent
OnlyFacts(K) == [k \in FactKeys |-> IF k \in K THEN facts[k] ELSE None]

\* ten results in the order of TestNames, each a function of its own
\* inputs, and a second call equal to the first
TenResultsEachTime ==
    /\ outcome # "raised"
    /\ Returned =>
          /\ Len(results) = 10
          /\ \A i \in 1..10 : results[i].name = TestNames[i]
          /\ \A i \in 1..10 :
                results[i] =
                    evaluate_all(OnlyFacts(OwnInputs[i]),
                                 IF i = 9 THEN history ELSE << >>)[i]
    /\ second # << >> => second = results

C25_WitnessEmpty ==
    /\ second # << >>
    /\ \A k \in FactKeys : IsNone(facts[k])
    /\ history = << >>

-----------------------------------------------------------------------------
(* Properties of the staleness fallback. *)

\* a call on a file that existed, was past its TTL and loads, while the
\* provider failed
StaleFileRefreshFailed ==
    /\ source.calls > 0
    /\ source.answer = "error"
    /\ source.before.exists
    /\ source.before.content # "corrupt"
    /\ now - source.before.mtime >= TtlOf(source.name)

\* a call of get_companyfacts that found a row older than seven days and
\* received no 200
StaleFilingsRefreshFailed ==
    /\ Requested
    /\ ~client.force
    /\ client.ok200 = 0
    /\ \E r \in client.before :
          r.key = client.cik /\ r.ts.form = "iso" /\ now - r.ts.t >= 7

\* a fetch_task that found a row older than one day while yfinance raised
\* or answered an empty frame
StalePricesRefreshFailed ==
    /\ batch.op = "batch_fetch_prices"
    /\ Len(batch.done) = 1
    /\ batch.done[1].why \in {"provider error", "empty response"}
    /\ \E r \in table :
          r.key = batch.items[1] /\ r.ts.form = "iso" /\ now - r.ts.t >= 1

\* C26: when the cached record of an external data source is older than
\* its TTL and the refresh fails, the stale content is returned rather than
\* absent, for the cik map file, the S&P-500 list file, the filings cache
\* and the price cache; absent or empty is returned only when no cached
\* record exists at all.
C26_Original ==
    /\ StaleFileRefreshFailed => source.value = source.before.content
    /\ StaleFilingsRefreshFailed => client.value # PyNone
    /\ StalePricesRefreshFailed => batch.done[1].df # PyNone

\* C26, amended: the two json files are read again when the refresh fails,
\* whatever their age, and empty is returned only without a file; the
\* filings cache and the price cache have no such fallback: a stale row
\* and a failed refresh give absent.
C26_FallbackOnlyForFiles ==
    /\ StaleFileRefreshFailed =>
          source.status = "returned" /\ source.value = source.before.content
    /\ (source.calls > 0 /\ source.value = "empty") =>
          ~source.before.exists /\ source.answer = "error"
    /\ StaleFilingsRefreshFailed => client.value = PyNone
    /\ StalePricesRefreshFailed => batch.done[1].df = PyNone

\* a stale filings row and three failed requests
C26_Witness ==
    /\ StaleFilingsRefreshFailed
    /\ client.requests = 3

\* a stale cik map file handed back after a failed fetch
C26_WitnessFile ==
    /\ StaleFileRefreshFailed
    /\ source.name = "cik_map"
    /\ now - source.before.mtime = CIK_MAP_TTL_DAYS

\* a stale price row and a failed download
C26_WitnessPrices == StalePricesRefreshFailed

-----------------------------------------------------------------------------
(* Properties of _sync_one. *)

SyncCalled == sync.calls > 0

\* the rows stored for the screener before the call were all within the TTL
WasWithinTtl ==
    /\ RowsOf(sync.before, sync.name) # {}
    /\ \A r \in RowsOf(sync.before, sync.name) :
          r.ts.form = "iso" /\ r.ts.t > now - TTL_DAYS

\* C27: _sync_one with force_refresh false on a screener whose stored rows
\* are within the 1-day TTL (and whose cache can be read) issues no request
\* to the screener service, leaves the cache unchanged and returns 0; when
\* the screener load fails or yields no ticker it returns 1 and the rows
\* stored before are unchanged; a failure while enriching one ticker does
\* not abort the sync, the ticker is stored with null metadata.
C27_SyncOne ==
    SyncCalled =>
        /\ (~sync.force /\ WasWithinTtl /\ sync.reads = <<"ok", "ok">>) =>
              /\ sync.requests = 0 /\ sync.lookups = 0
              /\ table = sync.before
              /\ sync.status = "0"
        /\ (sync.requests = 1 /\ sync.tickers = << >>) =>
              sync.status = "1" /\ table = sync.before
        /\ sync.failed # {} =>
              /\ sync.lookups = Len(sync.tickers)
              /\ sync.status # "1"
              /\ sync.wrote =>
                    /\ sync.status = "0"
                    /\ \A t \in sync.failed :
                          \E r \in RowsOf(table, sync.name) :
                             r.ticker = t /\ r.data = NullText
                    /\ {r.ticker : r \in RowsOf(table, sync.name)} =
                          {sync.tickers[i] : i \in DOMAIN sync.tickers}

\* get_stock raised for one of two tickers and both were stored
C27_Witness ==
    /\ SyncCalled
    /\ sync.failed = {"A"}
    /\ sync.wrote
    /\ \E r \in RowsOf(table, sync.name) :
          r.ticker = "B" /\ r.data = Enriched

\* a fresh screener answered from the cache
C27_WitnessFresh ==
    /\ SyncCalled /\ ~sync.force /\ WasWithinTtl
    /\ sync.reads = <<"ok", "ok">>
    /\ sync.status = "0"

\* a failed load over rows stored before
C27_WitnessLoadFailed ==
    /\ SyncCalled /\ sync.requests = 1 /\ ~sync.loaded
    /\ sync.status = "1"
    /\ RowsOf(table, sync.name) # {}

-----------------------------------------------------------------------------
(* Properties of the screener cache as a whole. *)

\* the positions of the rows list that carry a ticker
WithTicker(rows) == {i \in DOMAIN rows : rows[i] # ""}

\* a store of the screener cache committed in this step: afterwards the
\* screener holds one row per input row with a ticker, all stamped alike,
\* none of its earlier rows, and the other screeners' rows are as before
StoreReplacesScreener ==
    (/\ cache = "screener"
     /\ last'.calls # last.calls
     /\ last'.op = "store"
     /\ last'.rows # << >>
     /\ last'.wrote) =>
        LET name == last'.key
            rows == last'.rows
            new == RowsOf(table', name)
        IN  /\ {r.ticker : r \in new} = {Strip(rows[i]) : i \in WithTicker(rows)}
            /\ Cardinality(new) = Cardinality(WithTicker(rows))
            /\ \A r \in new : r.ts = IsoFormat(now)
            /\ \A r \in RowsOf(table, name) :
                  r \in new => r.ts = IsoFormat(now)
            /\ table' \ new = table \ RowsOf(table, name)

\* all rows of a screener share one updated_at; is_fresh and get_tickers,
\* whichever row comes first, agree, and the list is not empty
ScreenerRowsUniform ==
    cache = "screener" =>
        \A name \in CacheKeys :
           /\ \A r1, r2 \in RowsOf(table, name) : r1.ts = r2.ts
           /\ \A first \in IF RowsOf(table, name) = {}
                            THEN {Row(name, "", NullText, NullStamp)}
                            ELSE RowsOf(table, name) :
                 LET got == ScreenerCache_get_tickers(table, schema, now,
                                                      name, first, "ok").value
                 IN  /\ ScreenerCache_is_fresh(table, schema, now, name,
                                               first, "ok") <=> got.present
                     /\ got.present => got.tickers # {}

\* C29: after ScreenerCache.store(name, rows) with a non-empty rows list
\* commits, the rows stored for name are exactly one row per input row that
\* carries a ticker, all with the same updated_at, every row previously
\* stored for name is gone, and the rows of every other screener are
\* unchanged; consequently in every reachable state all rows of one
\* screener share a single updated_at, and is_fresh(name) is true exactly
\* when get_tickers(name) returns a list, which is then non-empty.
C29_StoreReplacesAtomically ==
    /\ [][StoreReplacesScreener]_vars
    /\ []ScreenerRowsUniform

\* two screeners stored on different days, the second store leaving the
\* first screener's rows alone; the older one has gone stale
C29_Witness ==
    /\ cache = "screener"
    /\ StoreCall /\ last.wrote
    /\ \E r1 \in RowsOf(table, "k1"), r2 \in RowsOf(table, "k2") :
          r1.ts # r2.ts
    /\ \E name \in CacheKeys : \E first \in RowsOf(table, name) :
          ~ScreenerCache_is_fresh(table, schema, now, name, first, "ok")

-----------------------------------------------------------------------------
(* Properties of the debt fact handed to the engine. *)

\* run_analysis went as far as the engine for the ticker last taken up
Analysed ==
    /\ batch.op = "main"
    /\ batch.at > 0
    /\ batch.done[batch.at] \in {"True", "raised"}

\* the value a tag of the last filing resolves to: that of its one entry
Resolved(entries) == IF entries = << >> THEN None ELSE Some(entries[1].val)

LongTermDebtFact == Resolved(batch.items[batch.at].facts_data.debt)

ShortTermBorrowingsFact ==
    Resolved(batch.items[batch.at].facts_data.borrowings)

\* the sum over those of the two that are present
SumOfPresent(a, b) ==
    IF IsNone(a) THEN b
    ELSE IF IsNone(b) THEN a
    ELSE Some(a.v + b.v)

\* C30: the debt fact handed to the scoring engine by run_analysis is the
\* sum of the long-term debt fact and the ShortTermBorrowings fact over
\* those of the two that are present, and it is absent only when both are
\* absent; hence Cash Test and Free Cash Flow are NA for lack of debt only
\* when neither debt fact was resolved.
C30_Original ==
    Analysed =>
        /\ facts["debt"] = SumOfPresent(LongTermDebtFact,
                                        ShortTermBorrowingsFact)
        /\ IsNone(facts["debt"]) =>
              IsNone(LongTermDebtFact) /\ IsNone(ShortTermBorrowingsFact)

\* what does hold: the debt is the sum of the two facts, except that
\* borrowings of zero are passed over like absent ones, so the debt is
\* absent exactly when there is no long-term debt fact and the borrowings
\* are absent or zero
C30_ZeroBorrowingsDropped ==
    Analysed =>
        /\ IsNone(facts["debt"]) <=>
              /\ IsNone(LongTermDebtFact)
              /\ \/ IsNone(ShortTermBorrowingsFact)
                 \/ ShortTermBorrowingsFact.v = 0
        /\ ~IsNone(facts["debt"]) =>
              facts["debt"] = SumOfPresent(LongTermDebtFact,
                                           ShortTermBorrowingsFact)

=============================================================================
